---- MODULE Spec2Model ----
(***************************************************************************)
(* State model of the rigid-body / area reconciliation core of             *)
(* godot-rapier: RapierBody (godot-rapier/src/body.rs), RapierArea         *)
(* (rapier-godot/src/area.rs) and the part of the Space/engine interface   *)
(* that the body reads back.                                               *)
(*                                                                         *)
(* Vectors are triples of integers, a Transform3D is an origin, a rotation *)
(* and a scale, an Isometry is a translation and a rotation (no scale).    *)
(* Option<T> fields hold "None" or a value; a Variant is a tagged value.   *)
(***************************************************************************)
EXTENDS Integers, Sequences, FiniteSets, TLC

VARIABLES body, rapier_area, rapier_shape, space, ret, last_set, panicked, log, heap

vars ==
  <<body, rapier_area, rapier_shape, space, panicked, log, last_set, heap,
    ret.op, ret.id, ret>>

-----------------------------------------------------------------------------
(* Bounds of the model *)

\* longest list of overlapping areas drawn for the gravity fold
MaxAreas == 3

\* longest list of overlapping areas drawn for the damp folds
MaxDampAreas == 2

\* the constant force accumulated by add_constant_force, along Y
MaxForce == 2

\* the live-state objects created in a run
MaxDirectStates == 2

-----------------------------------------------------------------------------
(* Godot / rapier value types *)

Vector3(x, y, z) == <<x, y, z>>

ZERO == Vector3(0, 0, 0)

VAdd(a, b) == Vector3(a[1] + b[1], a[2] + b[2], a[3] + b[3])

VSub(a, b) == Vector3(a[1] - b[1], a[2] - b[2], a[3] - b[3])

VScale(k, a) == Vector3(k * a[1], k * a[2], k * a[3])

\* rotations: 0 is the identity, 1 a half turn about the Y axis
Rotations == {0, 1}

Rotate(r, a) == IF r = 1 THEN Vector3(0 - a[1], a[2], 0 - a[3]) ELSE a

IDENTITY == [origin |-> ZERO, rotation |-> 0, scale |-> 1]

IsometryDefault == [translation |-> ZERO, rotation |-> 0]

\* conversions: the isometry of a transform drops its scale, which is
\* returned as the second component; the way back has unit scale
transform_to_isometry(t) ==
  <<[translation |-> t.origin, rotation |-> t.rotation], t.scale>>

isometry_to_transform(iso) ==
  [origin |-> iso.translation, rotation |-> iso.rotation, scale |-> 1]

\* Variant::from and Variant::to
Variant(type, val) == [type |-> type, val |-> val]

\* AreaSpaceOverrideMode
AREA_SPACE_OVERRIDE_DISABLED == "DISABLED"
AREA_SPACE_OVERRIDE_COMBINE == "COMBINE"
AREA_SPACE_OVERRIDE_COMBINE_REPLACE == "COMBINE_REPLACE"
AREA_SPACE_OVERRIDE_REPLACE == "REPLACE"
AREA_SPACE_OVERRIDE_REPLACE_COMBINE == "REPLACE_COMBINE"

AreaSpaceOverrideMode ==
  {AREA_SPACE_OVERRIDE_DISABLED, AREA_SPACE_OVERRIDE_COMBINE,
   AREA_SPACE_OVERRIDE_COMBINE_REPLACE, AREA_SPACE_OVERRIDE_REPLACE,
   AREA_SPACE_OVERRIDE_REPLACE_COMBINE}

\* DampMode
DAMP_MODE_COMBINE == "DAMP_MODE_COMBINE"
DAMP_MODE_REPLACE == "DAMP_MODE_REPLACE"

DampMode == {DAMP_MODE_COMBINE, DAMP_MODE_REPLACE}

\* BodyMode
BODY_MODE_STATIC == "STATIC"
BODY_MODE_KINEMATIC == "KINEMATIC"
BODY_MODE_RIGID == "RIGID"
BODY_MODE_RIGID_LINEAR == "RIGID_LINEAR"

BodyMode ==
  {BODY_MODE_STATIC, BODY_MODE_KINEMATIC, BODY_MODE_RIGID, BODY_MODE_RIGID_LINEAR}

-----------------------------------------------------------------------------
(* RapierArea *)

AreaDefault ==
  [priority |-> 0,
   gravity |-> 0,
   gravity_vector |-> ZERO,
   is_point_gravity |-> FALSE,
   point_gravity_distance |-> 0,
   gravity_mode |-> AREA_SPACE_OVERRIDE_DISABLED,
   linear_damp |-> 0,
   linear_damp_mode |-> AREA_SPACE_OVERRIDE_DISABLED,
   angular_damp |-> 0,
   angular_damp_mode |-> AREA_SPACE_OVERRIDE_DISABLED,
   monitorable |-> FALSE]

\* the gravity an area exerts at a position: towards the point gravity_vector
\* for a point-gravity area, along gravity_vector otherwise
compute_gravity(area, position) ==
  IF area.is_point_gravity
  THEN VScale(area.gravity, VSub(area.gravity_vector, position))
  ELSE VScale(area.gravity, area.gravity_vector)

-----------------------------------------------------------------------------
(* The Space: its default area and the engine's rigid body behind the      *)
(* body's handle                                                           *)

RigidBodyAbsent ==
  [present |-> FALSE,
   position |-> IsometryDefault,
   linvel |-> ZERO,
   angvel |-> ZERO,
   sleeping |-> FALSE,
   local_com |-> ZERO,
   mass |-> 0,
   inertia |-> ZERO,
   force |-> ZERO,
   torque |-> ZERO,
   collision_group |-> [layer |-> 0, mask |-> 0]]

\* the engine object the Space inserts for a body: it starts from the state
\* the body has stored
Space_insert_body(b) ==
  [present |-> TRUE,
   position |-> transform_to_isometry(b.transform)[1],
   linvel |-> b.linear_velocity,
   angvel |-> b.angular_velocity,
   sleeping |-> b.is_sleeping,
   local_com |-> b.custom_center_of_mass,
   mass |-> b.mass,
   inertia |-> b.inertia,
   force |-> ZERO,
   torque |-> ZERO,
   collision_group |-> [layer |-> b.collision_layer, mask |-> b.collision_mask]]

\* the default area of the Space: plain downward gravity and some damping
DefaultArea ==
  [AreaDefault EXCEPT !.gravity = 1,
                      !.gravity_vector = Vector3(0, -1, 0),
                      !.gravity_mode = AREA_SPACE_OVERRIDE_COMBINE,
                      !.linear_damp = 1,
                      !.linear_damp_mode = AREA_SPACE_OVERRIDE_COMBINE,
                      !.angular_damp = 1,
                      !.angular_damp_mode = AREA_SPACE_OVERRIDE_COMBINE]

\* rb is the engine object of the body, collider_present tells whether the
\* Space holds an engine object for the area
SpaceInit ==
  [default_area |-> DefaultArea, rb |-> RigidBodyAbsent, collider_present |-> FALSE]

Space_get_body(sp) == sp.rb

Space_set_transform(sp, value) ==
  IF sp.rb.present
  THEN [sp EXCEPT !.rb.position = transform_to_isometry(value)[1]]
  ELSE sp

Space_set_linear_velocity(sp, value) ==
  IF sp.rb.present THEN [sp EXCEPT !.rb.linvel = value] ELSE sp

Space_set_angular_velocity(sp, value) ==
  IF sp.rb.present THEN [sp EXCEPT !.rb.angvel = value] ELSE sp

Space_set_is_sleeping(sp, value) ==
  IF sp.rb.present THEN [sp EXCEPT !.rb.sleeping = value] ELSE sp

Space_set_custom_center_of_mass(sp, value) ==
  IF sp.rb.present THEN [sp EXCEPT !.rb.local_com = value] ELSE sp

Space_move_kinematic(sp, iso) ==
  IF sp.rb.present THEN [sp EXCEPT !.rb.position = iso] ELSE sp

Space_apply_central_force(sp, force) ==
  IF sp.rb.present THEN [sp EXCEPT !.rb.force = VAdd(@, force)] ELSE sp

Space_apply_torque(sp, torque) ==
  IF sp.rb.present THEN [sp EXCEPT !.rb.torque = VAdd(@, torque)] ELSE sp

Space_remove_body(sp) == [sp EXCEPT !.rb = RigidBodyAbsent]

Space_set_body_collision_group(sp, layer, mask) ==
  IF sp.rb.present
  THEN [sp EXCEPT !.rb.collision_group = [layer |-> layer, mask |-> mask]]
  ELSE sp

Space_insert_area(sp) == [sp EXCEPT !.collider_present = TRUE]

Space_remove_area(sp) == [sp EXCEPT !.collider_present = FALSE]

-----------------------------------------------------------------------------
(* RapierBody *)

new ==
  [space |-> "None",
   handle |-> "None",
   body_mode |-> BODY_MODE_STATIC,
   ccd_enabled |-> FALSE,
   body_state_callback |-> "invalid",
   constant_force |-> ZERO,
   constant_torque |-> ZERO,
   collision_layer |-> 1,
   collision_mask |-> 1,
   collision_priority |-> 1,
   bounce |-> 0,
   friction |-> 0,
   mass |-> 1,
   inertia |-> ZERO,
   custom_center_of_mass |-> ZERO,
   has_custom_center_of_mass |-> FALSE,
   gravity_scale |-> 1,
   linear_damp_mode |-> DAMP_MODE_COMBINE,
   angular_damp_mode |-> DAMP_MODE_COMBINE,
   linear_damp |-> 0,
   angular_damp |-> 0,
   areas |-> <<>>,
   linear_velocity |-> ZERO,
   angular_velocity |-> ZERO,
   transform |-> IDENTITY,
   kinematic_isometry |-> IsometryDefault,
   is_sleeping |-> FALSE,
   can_sleep |-> TRUE,
   sync_state |-> FALSE,
   direct_state |-> <<>>]

\* `if let Some(space) = self.space() { if let Some(handle) = self.handle()`
HasSpaceAndHandle(b) == b.space # "None" /\ b.handle # "None"

\* ... `{ if let Some(body) = space.borrow().get_body(handle)`
HasEngineBody(b, sp) == HasSpaceAndHandle(b) /\ Space_get_body(sp).present

is_kinematic(b) == b.body_mode = BODY_MODE_KINEMATIC

is_static(b) == b.body_mode = BODY_MODE_STATIC

\* transform() with the identity as the fallback instead of the stored field
transform_identity_fallback(b, sp) ==
  IF HasEngineBody(b, sp)
  THEN isometry_to_transform(Space_get_body(sp).position)
  ELSE IDENTITY

transform(b, sp) ==
  IF HasEngineBody(b, sp)
  THEN isometry_to_transform(Space_get_body(sp).position)
  ELSE b.transform

isometry(b, sp) == transform_to_isometry(transform(b, sp))[1]

linear_velocity(b, sp) ==
  IF HasEngineBody(b, sp) THEN Space_get_body(sp).linvel ELSE b.linear_velocity

angular_velocity(b, sp) ==
  IF HasEngineBody(b, sp) THEN Space_get_body(sp).angvel ELSE b.angular_velocity

is_sleeping(b, sp) ==
  IF HasEngineBody(b, sp) THEN Space_get_body(sp).sleeping ELSE b.is_sleeping

can_sleep(b) == b.can_sleep

\* the engine's world-space center of mass: the body pose applied to the
\* local center of mass
center_of_mass(b, sp) ==
  IF HasEngineBody(b, sp)
  THEN LET rb == Space_get_body(sp)
       IN  VAdd(rb.position.translation, Rotate(rb.position.rotation, rb.local_com))
  ELSE ZERO

-----------------------------------------------------------------------------
(* Area override folds: total_gravity, total_linear_damp, total_angular_damp *)

\* the arms of the match on the area's gravity mode in total_gravity: the
\* running total and gravity_done after an area of that mode and gravity g
gravity_match(mode, gravity, g) ==
  CASE mode = AREA_SPACE_OVERRIDE_COMBINE ->
         [gravity |-> VAdd(gravity, g), gravity_done |-> FALSE]
    [] mode = AREA_SPACE_OVERRIDE_COMBINE_REPLACE ->
         [gravity |-> VAdd(gravity, g), gravity_done |-> TRUE]
    [] mode = AREA_SPACE_OVERRIDE_REPLACE ->
         [gravity |-> g, gravity_done |-> TRUE]
    [] mode = AREA_SPACE_OVERRIDE_REPLACE_COMBINE ->
         [gravity |-> g, gravity_done |-> FALSE]
    [] OTHER -> [gravity |-> gravity, gravity_done |-> FALSE]

\* mutants of the loop body, one arm changed each
gravity_step_disabled_stops(gravity, area, position) ==
  IF area.gravity_mode = AREA_SPACE_OVERRIDE_DISABLED
  THEN [gravity |-> gravity, gravity_done |-> TRUE]
  ELSE gravity_match(area.gravity_mode, gravity, compute_gravity(area, position))

gravity_step_replace_accumulates(gravity, area, position) ==
  IF area.gravity_mode = AREA_SPACE_OVERRIDE_REPLACE
  THEN [gravity |-> VAdd(gravity, compute_gravity(area, position)),
        gravity_done |-> TRUE]
  ELSE gravity_match(area.gravity_mode, gravity, compute_gravity(area, position))

gravity_step_combine_replace_continues(gravity, area, position) ==
  IF area.gravity_mode = AREA_SPACE_OVERRIDE_COMBINE_REPLACE
  THEN [gravity |-> VAdd(gravity, compute_gravity(area, position)),
        gravity_done |-> FALSE]
  ELSE gravity_match(area.gravity_mode, gravity, compute_gravity(area, position))

gravity_step_replace_combine_accumulates(gravity, area, position) ==
  IF area.gravity_mode = AREA_SPACE_OVERRIDE_REPLACE_COMBINE
  THEN [gravity |-> VAdd(gravity, compute_gravity(area, position)),
        gravity_done |-> FALSE]
  ELSE gravity_match(area.gravity_mode, gravity, compute_gravity(area, position))

\* one iteration of the loop of total_gravity
gravity_step(gravity, area, position) ==
  gravity_match(area.gravity_mode, gravity, compute_gravity(area, position))

\* `for area in &self.areas { ...; if gravity_done { break; } }`
RECURSIVE gravity_loop(_, _, _, _, _)
gravity_loop(areas, i, gravity, gravity_done, position) ==
  IF i > Len(areas)
  THEN [gravity |-> gravity, gravity_done |-> gravity_done, visited |-> i - 1]
  ELSE LET s == gravity_step(gravity, areas[i], position)
       IN  IF s.gravity_done
           THEN [gravity |-> s.gravity, gravity_done |-> TRUE, visited |-> i]
           ELSE gravity_loop(areas, i + 1, s.gravity, s.gravity_done, position)

total_gravity(b, sp) ==
  LET position == transform(b, sp).origin
      l == gravity_loop(b.areas, 1, ZERO, FALSE, position)
      gravity == IF ~l.gravity_done /\ b.space # "None"
                 THEN VAdd(l.gravity, compute_gravity(sp.default_area, position))
                 ELSE l.gravity
  IN  VScale(b.gravity_scale, gravity)

\* the arms of the match on the area's linear damp mode
linear_damp_match(mode, total_linear_damp, damp) ==
  CASE mode = AREA_SPACE_OVERRIDE_COMBINE ->
         [total |-> total_linear_damp + damp, done |-> FALSE]
    [] mode = AREA_SPACE_OVERRIDE_COMBINE_REPLACE ->
         [total |-> total_linear_damp + damp, done |-> TRUE]
    [] mode = AREA_SPACE_OVERRIDE_REPLACE -> [total |-> damp, done |-> TRUE]
    [] mode = AREA_SPACE_OVERRIDE_REPLACE_COMBINE -> [total |-> damp, done |-> FALSE]
    [] OTHER -> [total |-> total_linear_damp, done |-> FALSE]

\* mutant: the loop body reads the area's angular damp fields
linear_damp_step_reads_angular(total_linear_damp, area) ==
  linear_damp_match(area.angular_damp_mode, total_linear_damp, area.angular_damp)

linear_damp_step(total_linear_damp, area) ==
  linear_damp_match(area.linear_damp_mode, total_linear_damp, area.linear_damp)

RECURSIVE linear_damp_loop(_, _, _, _)
linear_damp_loop(areas, i, total_linear_damp, linear_damp_done) ==
  IF i > Len(areas)
  THEN [total |-> total_linear_damp, done |-> linear_damp_done]
  ELSE LET s == linear_damp_step(total_linear_damp, areas[i])
       IN  IF s.done THEN s ELSE linear_damp_loop(areas, i + 1, s.total, s.done)

total_linear_damp(b, sp) ==
  LET l == linear_damp_loop(b.areas, 1, 0, b.linear_damp_mode = DAMP_MODE_REPLACE)
      t == IF ~l.done /\ b.space # "None"
           THEN l.total + sp.default_area.linear_damp
           ELSE l.total
  IN  CASE b.linear_damp_mode = DAMP_MODE_COMBINE -> t + b.linear_damp
        [] b.linear_damp_mode = DAMP_MODE_REPLACE -> b.linear_damp
        [] OTHER -> t

\* the arms of the match on the area's angular damp mode
angular_damp_match(mode, total_angular_damp, damp) ==
  CASE mode = AREA_SPACE_OVERRIDE_COMBINE ->
         [total |-> total_angular_damp + damp, done |-> FALSE]
    [] mode = AREA_SPACE_OVERRIDE_COMBINE_REPLACE ->
         [total |-> total_angular_damp + damp, done |-> TRUE]
    [] mode = AREA_SPACE_OVERRIDE_REPLACE -> [total |-> damp, done |-> TRUE]
    [] mode = AREA_SPACE_OVERRIDE_REPLACE_COMBINE -> [total |-> damp, done |-> FALSE]
    [] OTHER -> [total |-> total_angular_damp, done |-> FALSE]

angular_damp_step(total_angular_damp, area) ==
  angular_damp_match(area.angular_damp_mode, total_angular_damp, area.angular_damp)

RECURSIVE angular_damp_loop(_, _, _, _)
angular_damp_loop(areas, i, total_angular_damp, angular_damp_done) ==
  IF i > Len(areas)
  THEN [total |-> total_angular_damp, done |-> angular_damp_done]
  ELSE LET s == angular_damp_step(total_angular_damp, areas[i])
       IN  IF s.done THEN s ELSE angular_damp_loop(areas, i + 1, s.total, s.done)

total_angular_damp(b, sp) ==
  LET l == angular_damp_loop(b.areas, 1, 0, b.angular_damp_mode = DAMP_MODE_REPLACE)
      t == IF ~l.done /\ b.space # "None"
           THEN l.total + sp.default_area.angular_damp
           ELSE l.total
  IN  CASE b.angular_damp_mode = DAMP_MODE_COMBINE -> t + b.angular_damp
        [] b.angular_damp_mode = DAMP_MODE_REPLACE -> b.angular_damp
        [] OTHER -> t

-----------------------------------------------------------------------------
(* RapierBody: attachment *)

\* an operation's outcome: the body, the space and whether it panicked
Outcome(b, sp) == [body |-> b, space |-> sp, panic |-> FALSE]

Panic(b, sp) == [body |-> b, space |-> sp, panic |-> TRUE]

set_space(b, sp) == Outcome([b EXCEPT !.space = "Some"], sp)

\* set_handle stores the handle the Space hands out for the engine object it
\* has inserted for this body
set_handle(b, sp) ==
  Outcome([b EXCEPT !.handle = "Some"], [sp EXCEPT !.rb = Space_insert_body(b)])

\* remove_space with the fields cleared before the engine object is removed
remove_space_clears_first(b, sp, remove_from_space) ==
  LET b1 == [b EXCEPT !.space = "None", !.handle = "None"]
  IN  Outcome(b1,
              IF remove_from_space /\ HasSpaceAndHandle(b1)
              THEN Space_remove_body(sp)
              ELSE sp)

remove_space(b, sp, remove_from_space) ==
  Outcome([b EXCEPT !.space = "None", !.handle = "None"],
          IF remove_from_space /\ HasSpaceAndHandle(b)
          THEN Space_remove_body(sp)
          ELSE sp)

-----------------------------------------------------------------------------
(* RapierBody: setters *)

set_bounce(b, sp, bounce) == Outcome([b EXCEPT !.bounce = bounce], sp)

set_friction(b, sp, friction) == Outcome([b EXCEPT !.friction = friction], sp)

\* Space::set_mass recomputes the mass properties; without the custom flag
\* the local center of mass is the one of the shapes
Space_set_mass(sp, mass, custom_center_of_mass) ==
  IF sp.rb.present
  THEN [sp EXCEPT !.rb.mass = mass,
                  !.rb.local_com = IF custom_center_of_mass THEN @ ELSE ZERO]
  ELSE sp

Space_set_inertia(sp, inertia) ==
  IF sp.rb.present THEN [sp EXCEPT !.rb.inertia = inertia] ELSE sp

set_mass(b, sp, mass) ==
  Outcome([b EXCEPT !.mass = mass],
          IF HasSpaceAndHandle(b)
          THEN Space_set_mass(sp, mass, b.has_custom_center_of_mass)
          ELSE sp)

\* set_inertia that pushes the inertia to the engine even when it is zero
set_inertia_always_pushes(b, sp, inertia) ==
  Outcome([b EXCEPT !.inertia = inertia],
          IF HasSpaceAndHandle(b) THEN Space_set_inertia(sp, inertia) ELSE sp)

set_inertia(b, sp, inertia) ==
  Outcome([b EXCEPT !.inertia = inertia],
          IF HasSpaceAndHandle(b)
          THEN IF inertia = ZERO
               THEN Space_set_mass(sp, b.mass, b.has_custom_center_of_mass)
               ELSE Space_set_inertia(sp, inertia)
          ELSE sp)

set_center_of_mass(b, sp, center_of_mass_) ==
  Outcome([b EXCEPT !.custom_center_of_mass = center_of_mass_,
                    !.has_custom_center_of_mass = TRUE],
          IF HasSpaceAndHandle(b)
          THEN Space_set_custom_center_of_mass(sp, center_of_mass_)
          ELSE sp)

reset_mass_properties(b, sp) ==
  Outcome([b EXCEPT !.inertia = ZERO,
                    !.custom_center_of_mass = ZERO,
                    !.has_custom_center_of_mass = FALSE],
          IF HasSpaceAndHandle(b) THEN Space_set_mass(sp, b.mass, FALSE) ELSE sp)

set_gravity_scale(b, sp, gravity_scale) ==
  Outcome([b EXCEPT !.gravity_scale = gravity_scale], sp)

\* line 715 assigns the argument to self.angular_damp
set_linear_damp(b, sp, linear_damp) ==
  Outcome([b EXCEPT !.angular_damp = linear_damp], sp)

set_angular_damp(b, sp, angular_damp) ==
  Outcome([b EXCEPT !.angular_damp = angular_damp], sp)

set_linear_velocity(b, sp, value) ==
  Outcome([b EXCEPT !.linear_velocity = value],
          IF HasSpaceAndHandle(b) THEN Space_set_linear_velocity(sp, value) ELSE sp)

set_angular_velocity(b, sp, value) ==
  Outcome([b EXCEPT !.angular_velocity = value],
          IF HasSpaceAndHandle(b) THEN Space_set_angular_velocity(sp, value) ELSE sp)

set_is_sleeping(b, sp, value) ==
  Outcome([b EXCEPT !.is_sleeping = value],
          IF HasSpaceAndHandle(b) THEN Space_set_is_sleeping(sp, value) ELSE sp)

set_can_sleep(b, sp, value) == Outcome([b EXCEPT !.can_sleep = value], sp)

\* set_transform without the KINEMATIC arm: the pose goes to the engine in
\* every mode
set_transform_kinematic_teleports(b, sp, value) ==
  Outcome([b EXCEPT !.transform = value],
          IF HasSpaceAndHandle(b) THEN Space_set_transform(sp, value) ELSE sp)

set_transform(b, sp, value) ==
  IF is_kinematic(b)
  THEN Outcome([b EXCEPT !.transform = value,
                         !.kinematic_isometry = transform_to_isometry(value)[1]],
               sp)
  ELSE Outcome([b EXCEPT !.transform = value],
               IF HasSpaceAndHandle(b) THEN Space_set_transform(sp, value) ELSE sp)

set_body_mode(b, sp, mode) ==
  LET b1 == [b EXCEPT !.body_mode = mode]
  IN  IF HasSpaceAndHandle(b1) /\ is_kinematic(b1)
      THEN Outcome([b1 EXCEPT !.kinematic_isometry = isometry(b1, sp)], sp)
      ELSE Outcome(b1, sp)

-----------------------------------------------------------------------------
(* RapierBody: mass property queries, constant forces, apply_* *)

\* a float that is a reciprocal: num / den, or num / sqrt(den) with root 2;
\* the zero float is 0 / 1 and the float one is 1 / 1
Recip(x) == <<1, x, 1>>

RecipSqrt(x) == <<1, x, 2>>

FloatZero == <<0, 1, 1>>

FloatOne == Recip(1)

\* Vector3::inverse: the reciprocal of each component
VInverse(a) == <<Recip(a[1]), Recip(a[2]), Recip(a[3])>>

\* a Basis, of which only diagonal ones occur: its diagonal
Basis_from_diagonal(x, y, z) == <<x, y, z>>

Basis_IDENTITY == Basis_from_diagonal(FloatOne, FloatOne, FloatOne)

\* the engine's local_mprops.inv_mass
Space_inv_mass(sp) == Recip(sp.rb.mass)

\* the engine's local_mprops.inv_principal_inertia_sqrt
Space_inv_principal_inertia_sqrt(sp) ==
  <<RecipSqrt(sp.rb.inertia[1]), RecipSqrt(sp.rb.inertia[2]),
    RecipSqrt(sp.rb.inertia[3])>>

inverse_mass(b, sp) ==
  IF HasEngineBody(b, sp) THEN Space_inv_mass(sp) ELSE Recip(b.mass)

inverse_inertia(b, sp) ==
  IF is_kinematic(b) \/ is_static(b)
  THEN <<FloatZero, FloatZero, FloatZero>>
  ELSE IF HasEngineBody(b, sp)
       THEN Space_inv_principal_inertia_sqrt(sp)
       ELSE VInverse(b.inertia)

inverse_inertia_tensor(b, sp) ==
  IF is_kinematic(b) \/ is_static(b)
  THEN Basis_IDENTITY
  ELSE LET inv == IF HasEngineBody(b, sp)
                  THEN Space_inv_principal_inertia_sqrt(sp)
                  ELSE VInverse(b.inertia)
       IN  Basis_from_diagonal(inv[1], inv[2], inv[3])

local_center_of_mass(b, sp) ==
  IF HasEngineBody(b, sp) THEN Space_get_body(sp).local_com ELSE ZERO

Cross(a, b) ==
  Vector3(a[2] * b[3] - a[3] * b[2], a[3] * b[1] - a[1] * b[3],
          a[1] * b[2] - a[2] * b[1])

add_constant_force(b, sp, force, position) ==
  LET center_of_mass_ == center_of_mass(b, sp)
      translation == transform(b, sp).origin
      center_of_mass_relative == VSub(center_of_mass_, translation)
  IN  Outcome([b EXCEPT !.constant_force = VAdd(@, force),
                        !.constant_torque =
                          VAdd(@, Cross(VSub(position, center_of_mass_relative), force))],
              sp)

apply_central_force(b, sp, force) ==
  Outcome(b, IF HasSpaceAndHandle(b) THEN Space_apply_central_force(sp, force) ELSE sp)

apply_torque(b, sp, torque) ==
  Outcome(b, IF HasSpaceAndHandle(b) THEN Space_apply_torque(sp, torque) ELSE sp)

-----------------------------------------------------------------------------
(* RapierBody: set_param / get_param, set_state / get_state *)

BodyParameter ==
  {"BODY_PARAM_BOUNCE", "BODY_PARAM_FRICTION", "BODY_PARAM_MASS",
   "BODY_PARAM_INERTIA", "BODY_PARAM_CENTER_OF_MASS", "BODY_PARAM_GRAVITY_SCALE",
   "BODY_PARAM_LINEAR_DAMP_MODE", "BODY_PARAM_ANGULAR_DAMP_MODE",
   "BODY_PARAM_LINEAR_DAMP", "BODY_PARAM_ANGULAR_DAMP"}

\* the type each arm of set_param converts its Variant to
ParamType(param) ==
  CASE param \in {"BODY_PARAM_INERTIA", "BODY_PARAM_CENTER_OF_MASS"} -> "VECTOR3"
    [] param \in {"BODY_PARAM_LINEAR_DAMP_MODE", "BODY_PARAM_ANGULAR_DAMP_MODE"} ->
         "DAMP_MODE"
    [] OTHER -> "FLOAT"

set_param(b, sp, param, value) ==
  IF value.type # ParamType(param)
  THEN Panic(b, sp)
  ELSE LET v == value.val
       IN  CASE param = "BODY_PARAM_BOUNCE" -> set_bounce(b, sp, v)
             [] param = "BODY_PARAM_FRICTION" -> set_friction(b, sp, v)
             [] param = "BODY_PARAM_MASS" -> set_mass(b, sp, v)
             [] param = "BODY_PARAM_INERTIA" -> set_inertia(b, sp, v)
             [] param = "BODY_PARAM_CENTER_OF_MASS" -> set_center_of_mass(b, sp, v)
             [] param = "BODY_PARAM_GRAVITY_SCALE" -> set_gravity_scale(b, sp, v)
             [] param = "BODY_PARAM_LINEAR_DAMP_MODE" ->
                  Outcome([b EXCEPT !.linear_damp_mode = v], sp)
             [] param = "BODY_PARAM_ANGULAR_DAMP_MODE" ->
                  Outcome([b EXCEPT !.angular_damp_mode = v], sp)
             [] param = "BODY_PARAM_LINEAR_DAMP" -> set_linear_damp(b, sp, v)
             [] param = "BODY_PARAM_ANGULAR_DAMP" -> set_angular_damp(b, sp, v)
             [] OTHER -> Outcome(b, sp)

get_param(b, sp, param) ==
  CASE param = "BODY_PARAM_BOUNCE" -> Variant("FLOAT", b.bounce)
    [] param = "BODY_PARAM_FRICTION" -> Variant("FLOAT", b.friction)
    [] param = "BODY_PARAM_MASS" -> Variant("FLOAT", b.mass)
    [] param = "BODY_PARAM_INERTIA" -> Variant("VECTOR3", b.inertia)
    [] param = "BODY_PARAM_CENTER_OF_MASS" -> Variant("VECTOR3", center_of_mass(b, sp))
    [] param = "BODY_PARAM_GRAVITY_SCALE" -> Variant("FLOAT", b.gravity_scale)
    [] param = "BODY_PARAM_LINEAR_DAMP_MODE" -> Variant("DAMP_MODE", b.linear_damp_mode)
    [] param = "BODY_PARAM_ANGULAR_DAMP_MODE" ->
         Variant("DAMP_MODE", b.angular_damp_mode)
    [] param = "BODY_PARAM_LINEAR_DAMP" -> Variant("FLOAT", b.linear_damp)
    [] param = "BODY_PARAM_ANGULAR_DAMP" -> Variant("FLOAT", b.angular_damp)
    [] OTHER -> Variant("NIL", 0)

BodyState ==
  {"BODY_STATE_TRANSFORM", "BODY_STATE_LINEAR_VELOCITY",
   "BODY_STATE_ANGULAR_VELOCITY", "BODY_STATE_SLEEPING", "BODY_STATE_CAN_SLEEP"}

StateType(state) ==
  CASE state = "BODY_STATE_TRANSFORM" -> "TRANSFORM3D"
    [] state \in {"BODY_STATE_LINEAR_VELOCITY", "BODY_STATE_ANGULAR_VELOCITY"} ->
         "VECTOR3"
    [] OTHER -> "BOOL"

set_state(b, sp, state, value) ==
  IF value.type # StateType(state)
  THEN Panic(b, sp)
  ELSE LET v == value.val
       IN  CASE state = "BODY_STATE_TRANSFORM" -> set_transform(b, sp, v)
             [] state = "BODY_STATE_LINEAR_VELOCITY" -> set_linear_velocity(b, sp, v)
             [] state = "BODY_STATE_ANGULAR_VELOCITY" -> set_angular_velocity(b, sp, v)
             [] state = "BODY_STATE_SLEEPING" -> set_is_sleeping(b, sp, v)
             [] state = "BODY_STATE_CAN_SLEEP" -> set_can_sleep(b, sp, v)
             [] OTHER -> Outcome(b, sp)

get_state(b, sp, state) ==
  CASE state = "BODY_STATE_TRANSFORM" -> Variant("TRANSFORM3D", transform(b, sp))
    [] state = "BODY_STATE_LINEAR_VELOCITY" ->
         Variant("VECTOR3", linear_velocity(b, sp))
    [] state = "BODY_STATE_ANGULAR_VELOCITY" ->
         Variant("VECTOR3", angular_velocity(b, sp))
    [] state = "BODY_STATE_SLEEPING" -> Variant("BOOL", is_sleeping(b, sp))
    [] state = "BODY_STATE_CAN_SLEEP" -> Variant("BOOL", can_sleep(b))
    [] OTHER -> Variant("NIL", 0)

-----------------------------------------------------------------------------
(* RefCell borrows: the borrows an operation takes, in program order.      *)
(* "borrow"/"drop" are RefCell::borrow and the drop of its Ref,            *)
(* "borrow_mut"/"drop_mut" are RefCell::borrow_mut and the drop of its     *)
(* RefMut. A temporary of a statement is dropped at the end of the         *)
(* statement, so the RefMut of `space.borrow_mut().f(args)` is taken       *)
(* before args are evaluated and dropped after the call.                   *)

Ev(cell, kind) == [cell |-> cell, kind |-> kind]

\* `if let Some(body) = space.borrow().get_body(handle) { return ..; }`
accessor_borrows(b) ==
  IF HasSpaceAndHandle(b)
  THEN <<Ev("space", "borrow"), Ev("space", "drop")>>
  ELSE <<>>

\* `space.borrow_mut().f(handle, <plain value>);`
engine_call_borrows == <<Ev("space", "borrow_mut"), Ev("space", "drop_mut")>>

\* one iteration of the loop of total_gravity: the Ref of the match
\* scrutinee lives to the end of the match, the arm takes a second Ref
RECURSIVE area_loop_borrows(_)
area_loop_borrows(n) ==
  IF n = 0
  THEN <<>>
  ELSE <<Ev("area", "borrow"), Ev("area", "borrow"), Ev("area", "drop"),
         Ev("area", "drop")>> \o area_loop_borrows(n - 1)

total_gravity_borrows(b, sp) ==
  LET position == transform(b, sp).origin
      l == gravity_loop(b.areas, 1, ZERO, FALSE, position)
  IN  accessor_borrows(b)
      \o area_loop_borrows(l.visited)
      \o (IF ~l.gravity_done /\ b.space # "None"
          THEN <<Ev("space", "borrow"), Ev("area", "borrow"), Ev("area", "drop"),
                 Ev("space", "drop")>>
          ELSE <<>>)

integrate_forces_borrows(b, sp) ==
  IF HasSpaceAndHandle(b)
  THEN accessor_borrows(b)
       \o <<Ev("space", "borrow_mut")>>
       \o total_gravity_borrows(b, sp)
       \o <<Ev("space", "drop_mut")>>
       \o engine_call_borrows
       \o engine_call_borrows
  ELSE <<>>

move_kinematic_borrows(b, sp) ==
  IF HasSpaceAndHandle(b)
  THEN engine_call_borrows
       \o engine_call_borrows
       \o accessor_borrows(b)
       \o (IF isometry(b, sp) = b.kinematic_isometry THEN <<>> ELSE engine_call_borrows)
  ELSE <<>>

pre_step_borrows(b, sp) ==
  CASE b.body_mode \in {BODY_MODE_RIGID, BODY_MODE_RIGID_LINEAR} ->
         integrate_forces_borrows(b, sp)
    [] b.body_mode = BODY_MODE_KINEMATIC -> move_kinematic_borrows(b, sp)
    [] OTHER -> <<>>

\* RefCell's borrow flag: the number of live Refs, or -1 for a live RefMut;
\* borrow panics on a negative flag, borrow_mut on a flag other than 0
RECURSIVE BorrowPanics(_, _, _)
BorrowPanics(trace, i, flag) ==
  IF i > Len(trace)
  THEN FALSE
  ELSE LET e == trace[i]
           f == flag[e.cell]
       IN  CASE e.kind = "borrow" ->
                  IF f < 0
                  THEN TRUE
                  ELSE BorrowPanics(trace, i + 1, [flag EXCEPT ![e.cell] = f + 1])
             [] e.kind = "drop" ->
                  BorrowPanics(trace, i + 1, [flag EXCEPT ![e.cell] = f - 1])
             [] e.kind = "borrow_mut" ->
                  IF f # 0
                  THEN TRUE
                  ELSE BorrowPanics(trace, i + 1, [flag EXCEPT ![e.cell] = 0 - 1])
             [] OTHER -> BorrowPanics(trace, i + 1, [flag EXCEPT ![e.cell] = 0])

Unborrowed == [cell \in {"space", "area"} |-> 0]

-----------------------------------------------------------------------------
(* RapierBody: pre_step *)

integrate_forces(b, sp, step) ==
  IF HasSpaceAndHandle(b)
  THEN IF BorrowPanics(integrate_forces_borrows(b, sp), 1, Unborrowed)
       THEN Panic(b, sp)
       ELSE LET sp1 == Space_set_linear_velocity(
                         sp,
                         VAdd(linear_velocity(b, sp), VScale(step, total_gravity(b, sp))))
                sp2 == Space_apply_central_force(sp1, b.constant_force)
            IN  Outcome(b, Space_apply_torque(sp2, b.constant_torque))
  ELSE Outcome(b, sp)

\* move_kinematic without the two velocity commands
move_kinematic_keeps_velocity(b, sp) ==
  IF HasSpaceAndHandle(b)
  THEN IF isometry(b, sp) = b.kinematic_isometry
       THEN Outcome(b, sp)
       ELSE Outcome(b, Space_move_kinematic(sp, b.kinematic_isometry))
  ELSE Outcome(b, sp)

\* move_kinematic without the move command
move_kinematic_never_moves(b, sp) ==
  IF HasSpaceAndHandle(b)
  THEN Outcome(b, Space_set_angular_velocity(Space_set_linear_velocity(sp, ZERO), ZERO))
  ELSE Outcome(b, sp)

move_kinematic(b, sp) ==
  IF HasSpaceAndHandle(b)
  THEN LET sp1 == Space_set_angular_velocity(Space_set_linear_velocity(sp, ZERO), ZERO)
       IN  IF BorrowPanics(move_kinematic_borrows(b, sp1), 1, Unborrowed)
           THEN Panic(b, sp1)
           ELSE IF isometry(b, sp1) = b.kinematic_isometry
                THEN Outcome(b, sp1)
                ELSE Outcome(b, Space_move_kinematic(sp1, b.kinematic_isometry))
  ELSE Outcome(b, sp)

pre_step(b, sp, step) ==
  CASE b.body_mode \in {BODY_MODE_RIGID, BODY_MODE_RIGID_LINEAR} ->
         integrate_forces(b, sp, step)
    [] b.body_mode = BODY_MODE_KINEMATIC -> move_kinematic(b, sp)
    [] OTHER -> Outcome(b, sp)

-----------------------------------------------------------------------------
(* What a call emits: the diagnostics of space() and handle(), the reads   *)
(* of the engine body and the commands sent to the Space, in program order *)

Diag(what) == [kind |-> "diagnostic", cmd |-> what]

Cmd(name) == [kind |-> "engine", cmd |-> name]

Read(name) == [kind |-> "read", cmd |-> name]

\* self.space(): godot_error! when the space is None
space_events(b) ==
  IF b.space = "None" THEN <<Diag("ObjectSpaceNotSet")>> ELSE <<>>

\* self.handle(): godot_error! when the handle is None
handle_events(b) ==
  IF b.handle = "None" THEN <<Diag("BodyHandleNotSet")>> ELSE <<>>

\* `if let Some(space) = self.space() { if let Some(handle) = self.handle()`
guard_events(b) ==
  space_events(b) \o (IF b.space # "None" THEN handle_events(b) ELSE <<>>)

\* ... `{ space.borrow_mut().<commands>(handle, ..) } }`
engine_events(b, cmds) ==
  guard_events(b) \o (IF HasSpaceAndHandle(b) THEN cmds ELSE <<>>)

\* ... `{ if let Some(body) = space.borrow().get_body(handle) { return .. } } }`
accessor_events(b) == engine_events(b, <<Read("get_body")>>)

total_gravity_events(b, sp) ==
  LET position == transform(b, sp).origin
      l == gravity_loop(b.areas, 1, ZERO, FALSE, position)
  IN  accessor_events(b)
      \o (IF l.gravity_done
          THEN <<>>
          ELSE space_events(b)
               \o (IF b.space # "None" THEN <<Read("default_area")>> ELSE <<>>))

total_linear_damp_events(b) ==
  LET l == linear_damp_loop(b.areas, 1, 0, b.linear_damp_mode = DAMP_MODE_REPLACE)
  IN  IF l.done
      THEN <<>>
      ELSE space_events(b)
           \o (IF b.space # "None" THEN <<Read("default_area")>> ELSE <<>>)

total_angular_damp_events(b) ==
  LET l == angular_damp_loop(b.areas, 1, 0, b.angular_damp_mode = DAMP_MODE_REPLACE)
  IN  IF l.done
      THEN <<>>
      ELSE space_events(b)
           \o (IF b.space # "None" THEN <<Read("default_area")>> ELSE <<>>)

\* integrate_forces: the read of the velocity, then the three commands; the
\* argument total_gravity() of the first command is evaluated before the
\* command is sent, and a borrow panic ends the call inside it
integrate_forces_events(b, sp) ==
  guard_events(b)
  \o (IF HasSpaceAndHandle(b)
      THEN accessor_events(b)
           \o (IF BorrowPanics(integrate_forces_borrows(b, sp), 1, Unborrowed)
               THEN <<>>
               ELSE total_gravity_events(b, sp)
                    \o <<Cmd("set_linear_velocity"), Cmd("apply_central_force"),
                         Cmd("apply_torque")>>)
      ELSE <<>>)

move_kinematic_events(b, sp) ==
  guard_events(b)
  \o (IF HasSpaceAndHandle(b)
      THEN <<Cmd("set_linear_velocity"), Cmd("set_angular_velocity")>>
           \o accessor_events(b)
           \o (IF isometry(b, sp) = b.kinematic_isometry
               THEN <<>>
               ELSE <<Cmd("move_kinematic")>>)
      ELSE <<>>)

pre_step_events(b, sp) ==
  CASE b.body_mode \in {BODY_MODE_RIGID, BODY_MODE_RIGID_LINEAR} ->
         integrate_forces_events(b, sp)
    [] b.body_mode = BODY_MODE_KINEMATIC -> move_kinematic_events(b, sp)
    [] OTHER -> <<>>

remove_space_events(b, remove_from_space) ==
  IF remove_from_space THEN engine_events(b, <<Cmd("remove_body")>>) ELSE <<>>

set_transform_events(b) ==
  IF is_kinematic(b) THEN <<>> ELSE engine_events(b, <<Cmd("set_transform")>>)

set_body_mode_events(b, mode) ==
  engine_events(b, <<Cmd("set_body_mode")>>
                   \o (IF mode = BODY_MODE_KINEMATIC
                       THEN accessor_events(b)
                       ELSE <<>>))

set_inertia_events(b, inertia) ==
  engine_events(b, IF inertia = ZERO THEN <<Cmd("set_mass")>> ELSE <<Cmd("set_inertia")>>)

set_param_events(b, param, value) ==
  CASE param = "BODY_PARAM_BOUNCE" -> engine_events(b, <<Cmd("set_bounce")>>)
    [] param = "BODY_PARAM_FRICTION" -> engine_events(b, <<Cmd("set_friction")>>)
    [] param = "BODY_PARAM_MASS" -> engine_events(b, <<Cmd("set_mass")>>)
    [] param = "BODY_PARAM_INERTIA" -> set_inertia_events(b, value.val)
    [] param = "BODY_PARAM_CENTER_OF_MASS" ->
         engine_events(b, <<Cmd("set_custom_center_of_mass")>>)
    [] param = "BODY_PARAM_GRAVITY_SCALE" -> engine_events(b, <<Cmd("set_gravity_scale")>>)
    [] param = "BODY_PARAM_LINEAR_DAMP" -> engine_events(b, <<Cmd("set_linear_damp")>>)
    [] param = "BODY_PARAM_ANGULAR_DAMP" -> engine_events(b, <<Cmd("set_angular_damp")>>)
    [] OTHER -> <<>>

set_state_events(b, state) ==
  CASE state = "BODY_STATE_TRANSFORM" -> set_transform_events(b)
    [] state = "BODY_STATE_LINEAR_VELOCITY" ->
         engine_events(b, <<Cmd("set_linear_velocity")>>)
    [] state = "BODY_STATE_ANGULAR_VELOCITY" ->
         engine_events(b, <<Cmd("set_angular_velocity")>>)
    [] state = "BODY_STATE_SLEEPING" -> engine_events(b, <<Cmd("set_is_sleeping")>>)
    [] OTHER -> engine_events(b, <<Cmd("set_can_sleep")>>)

get_state_events(b, state) ==
  IF state = "BODY_STATE_CAN_SLEEP" THEN <<>> ELSE accessor_events(b)

inverse_inertia_events(b) ==
  IF is_kinematic(b) \/ is_static(b) THEN <<>> ELSE accessor_events(b)

\* center_of_mass() and then transform()
add_constant_force_events(b) == accessor_events(b) \o accessor_events(b)

-----------------------------------------------------------------------------
(* RapierArea: attachment. The area's space and handle are read as fields, *)
(* without diagnostics.                                                    *)

\* Default for RapierArea: the fields of AreaDefault, no space, no handle
RapierArea_new == AreaDefault @@ [space |-> "None", handle |-> "None"]

RapierArea_set_space(a) == [a EXCEPT !.space = "Some"]

RapierArea_set_handle(a) == [a EXCEPT !.handle = "Some"]

RapierArea_has_space_and_handle(a) == a.space # "None" /\ a.handle # "None"

\* remove_from_space: the engine object goes, the fields stay
RapierArea_remove_from_space(a, sp) ==
  IF RapierArea_has_space_and_handle(a) THEN Space_remove_area(sp) ELSE sp

RapierArea_remove_from_space_events(a) ==
  IF RapierArea_has_space_and_handle(a) THEN <<Cmd("remove_area")>> ELSE <<>>

RapierArea_remove_space(a) == [a EXCEPT !.space = "None", !.handle = "None"]

-----------------------------------------------------------------------------
(* RapierArea: get_param and set_param. A Variant holds an override mode   *)
(* as the INT of its ordinal; value.to() panics on a Variant of another    *)
(* type and on an INT that is no ordinal of the enum.                      *)

AreaParameter ==
  {"AREA_PARAM_GRAVITY_OVERRIDE_MODE", "AREA_PARAM_GRAVITY",
   "AREA_PARAM_GRAVITY_VECTOR", "AREA_PARAM_GRAVITY_IS_POINT",
   "AREA_PARAM_GRAVITY_POINT_UNIT_DISTANCE", "AREA_PARAM_LINEAR_DAMP_OVERRIDE_MODE",
   "AREA_PARAM_LINEAR_DAMP", "AREA_PARAM_ANGULAR_DAMP_OVERRIDE_MODE",
   "AREA_PARAM_ANGULAR_DAMP", "AREA_PARAM_PRIORITY",
   "AREA_PARAM_WIND_FORCE_MAGNITUDE", "AREA_PARAM_WIND_SOURCE",
   "AREA_PARAM_WIND_DIRECTION", "AREA_PARAM_WIND_ATTENUATION_FACTOR"}

WindParameter ==
  {"AREA_PARAM_WIND_FORCE_MAGNITUDE", "AREA_PARAM_WIND_SOURCE",
   "AREA_PARAM_WIND_DIRECTION", "AREA_PARAM_WIND_ATTENUATION_FACTOR"}

\* the ordinals of AreaSpaceOverrideMode
AreaSpaceOverrideMode_ord(mode) ==
  CASE mode = AREA_SPACE_OVERRIDE_DISABLED -> 0
    [] mode = AREA_SPACE_OVERRIDE_COMBINE -> 1
    [] mode = AREA_SPACE_OVERRIDE_COMBINE_REPLACE -> 2
    [] mode = AREA_SPACE_OVERRIDE_REPLACE -> 3
    [] mode = AREA_SPACE_OVERRIDE_REPLACE_COMBINE -> 4

AreaSpaceOverrideMode_from_ord(ord) ==
  CHOOSE mode \in AreaSpaceOverrideMode : AreaSpaceOverrideMode_ord(mode) = ord

\* Variant::from(mode)
Variant_from_mode(mode) == Variant("INT", AreaSpaceOverrideMode_ord(mode))

\* the field each parameter is stored in, and the type its arm converts to
AreaParamField(param) ==
  CASE param = "AREA_PARAM_GRAVITY_OVERRIDE_MODE" -> "gravity_mode"
    [] param = "AREA_PARAM_GRAVITY" -> "gravity"
    [] param = "AREA_PARAM_GRAVITY_VECTOR" -> "gravity_vector"
    [] param = "AREA_PARAM_GRAVITY_IS_POINT" -> "is_point_gravity"
    [] param = "AREA_PARAM_GRAVITY_POINT_UNIT_DISTANCE" -> "point_gravity_distance"
    [] param = "AREA_PARAM_LINEAR_DAMP_OVERRIDE_MODE" -> "linear_damp_mode"
    [] param = "AREA_PARAM_LINEAR_DAMP" -> "linear_damp"
    [] param = "AREA_PARAM_ANGULAR_DAMP_OVERRIDE_MODE" -> "angular_damp_mode"
    [] param = "AREA_PARAM_ANGULAR_DAMP" -> "angular_damp"
    [] param = "AREA_PARAM_PRIORITY" -> "priority"

AreaParamType(param) ==
  CASE param \in {"AREA_PARAM_GRAVITY_OVERRIDE_MODE",
                  "AREA_PARAM_LINEAR_DAMP_OVERRIDE_MODE",
                  "AREA_PARAM_ANGULAR_DAMP_OVERRIDE_MODE"} -> "INT"
    [] param \in {"AREA_PARAM_GRAVITY_VECTOR", "AREA_PARAM_WIND_SOURCE",
                  "AREA_PARAM_WIND_DIRECTION"} -> "VECTOR3"
    [] param = "AREA_PARAM_GRAVITY_IS_POINT" -> "BOOL"
    [] OTHER -> "FLOAT"

DEFAULT_WIND_FORCE_MAGNITUDE == 0

DEFAULT_WIND_ATTENUATION_FACTOR == 0

DEFAULT_WIND_SOURCE == ZERO

DEFAULT_WIND_DIRECTION == ZERO

RapierArea_get_param(a, param) ==
  CASE param = "AREA_PARAM_WIND_FORCE_MAGNITUDE" ->
         Variant("FLOAT", DEFAULT_WIND_FORCE_MAGNITUDE)
    [] param = "AREA_PARAM_WIND_SOURCE" -> Variant("VECTOR3", DEFAULT_WIND_SOURCE)
    [] param = "AREA_PARAM_WIND_DIRECTION" -> Variant("VECTOR3", DEFAULT_WIND_DIRECTION)
    [] param = "AREA_PARAM_WIND_ATTENUATION_FACTOR" ->
         Variant("FLOAT", DEFAULT_WIND_ATTENUATION_FACTOR)
    [] param \in AreaParameter \ WindParameter ->
         IF AreaParamType(param) = "INT"
         THEN Variant_from_mode(a[AreaParamField(param)])
         ELSE Variant(AreaParamType(param), a[AreaParamField(param)])
    [] OTHER -> Variant("NIL", 0)

Warn(what) == [kind |-> "warning", cmd |-> what]

\* the wind arms of set_param that warn of nothing
wind_warning_none(param) == <<>>

\* godot_warn! of the wind arms of set_param
wind_warning(param) == <<Warn(param)>>

AreaOutcome(a, events) == [area |-> a, panic |-> FALSE, events |-> events]

AreaPanic(a) == [area |-> a, panic |-> TRUE, events |-> <<>>]

RapierArea_set_param(a, param, value) ==
  CASE param \in WindParameter -> AreaOutcome(a, wind_warning(param))
    [] param \in AreaParameter \ WindParameter ->
         IF value.type # AreaParamType(param)
         THEN AreaPanic(a)
         ELSE IF value.type = "INT"
              THEN IF value.val \in 0..4
                   THEN AreaOutcome([a EXCEPT ![AreaParamField(param)] =
                                       AreaSpaceOverrideMode_from_ord(value.val)], <<>>)
                   ELSE AreaPanic(a)
              ELSE AreaOutcome([a EXCEPT ![AreaParamField(param)] = value.val], <<>>)
    [] OTHER -> AreaOutcome(a, <<>>)

-----------------------------------------------------------------------------
(* The shapes of rapier-godot/src/shape.rs and the capsule of               *)
(* rapier-godot/src/shapes/capsule_shape.rs. Lengths are in tenths: the     *)
(* 0.5 of Ball::new(0.5) is 5. A capsule is its radius and the heights a    *)
(* and b of the ends of its segment along Y; a Dictionary is the record of  *)
(* what get_or_nil returns for "radius" and for "height", the NIL Variant   *)
(* for a key that is missing.                                               *)

ShapeKind == {"sphere", "box", "capsule", "capsule_shape", "cylinder"}

\* every kind is one record; a kind leaves the fields it has not at 0
ShapeNone ==
  [kind |-> "none", radius |-> 0, half_extents |-> ZERO, a |-> 0, b |-> 0,
   half_height |-> 0]

\* Ball::new(0.5)
RapierSphereShape_new == [ShapeNone EXCEPT !.kind = "sphere", !.radius = 5]

\* Cuboid::new(vector![0.5, 0.5, 0.5])
RapierBoxShape_new ==
  [ShapeNone EXCEPT !.kind = "box", !.half_extents = Vector3(5, 5, 5)]

\* Capsule::new_y(0.5, 0.2): half height 0.5, radius 0.2
RapierCapsuleShape_new ==
  [ShapeNone EXCEPT !.kind = "capsule", !.radius = 2, !.a = -5, !.b = 5]

\* Cylinder::new(0.5, 0.2): half height 0.5, radius 0.2
RapierCylinderShape_new ==
  [ShapeNone EXCEPT !.kind = "cylinder", !.radius = 2, !.half_height = 5]

RapierShape_new(kind) ==
  CASE kind = "sphere" -> RapierSphereShape_new
    [] kind = "box" -> RapierBoxShape_new
    [] kind = "capsule" -> RapierCapsuleShape_new
    [] kind = "capsule_shape" -> [RapierCapsuleShape_new EXCEPT !.kind = "capsule_shape"]
    [] kind = "cylinder" -> RapierCylinderShape_new

\* Capsule::height(): the length of the segment
Capsule_height(sh) == IF sh.b >= sh.a THEN sh.b - sh.a ELSE sh.a - sh.b

\* Variant::try_to::<T>() is Ok iff the Variant is of the type of T
try_to_ok(value, type) == value.type = type

ShapeOutcome(sh, events) == [shape |-> sh, events |-> events]

RapierSphereShape_set_data(sh, data) ==
  IF try_to_ok(data, "FLOAT")
  THEN ShapeOutcome([sh EXCEPT !.radius = data.val], <<>>)
  ELSE ShapeOutcome(sh, <<Diag("VariantConversionError")>>)

RapierBoxShape_set_data(sh, data) ==
  IF try_to_ok(data, "VECTOR3")
  THEN ShapeOutcome([sh EXCEPT !.half_extents = data.val], <<>>)
  ELSE ShapeOutcome(sh, <<Diag("VariantConversionError")>>)

\* shape.rs: the radius arm, then the height arm, each on its own
RapierCapsuleShape_set_data(sh, data) ==
  IF try_to_ok(data, "DICTIONARY")
  THEN LET radius == data.val.radius
           height == data.val.height
           sh1 == IF try_to_ok(radius, "FLOAT")
                  THEN [sh EXCEPT !.radius = radius.val]
                  ELSE sh
           sh2 == IF try_to_ok(height, "FLOAT")
                  THEN [sh1 EXCEPT !.b = sh1.a + height.val]
                  ELSE sh1
       IN  ShapeOutcome(sh2,
             (IF try_to_ok(radius, "FLOAT") THEN <<>>
                                            ELSE <<Diag("VariantConversionError")>>)
             \o (IF try_to_ok(height, "FLOAT") THEN <<>>
                                               ELSE <<Diag("VariantConversionError")>>))
  ELSE ShapeOutcome(sh, <<Diag("VariantConversionError")>>)

\* self.update_owners()
UpdateOwners == [kind |-> "update", cmd |-> "update_owners"]

\* shapes/capsule_shape.rs: as above, but a value that is the stored one
\* already is not written, and the owners are told of each write
capsule_shape_set_data(sh, data) ==
  IF try_to_ok(data, "DICTIONARY")
  THEN LET radius == data.val.radius
           height == data.val.height
           writes_radius == try_to_ok(radius, "FLOAT") /\ radius.val # sh.radius
           sh1 == IF writes_radius THEN [sh EXCEPT !.radius = radius.val] ELSE sh
           writes_height ==
             try_to_ok(height, "FLOAT") /\ height.val # Capsule_height(sh1)
           sh2 == IF writes_height THEN [sh1 EXCEPT !.b = sh1.a + height.val] ELSE sh1
       IN  ShapeOutcome(sh2,
             (IF try_to_ok(radius, "FLOAT")
              THEN IF writes_radius THEN <<UpdateOwners>> ELSE <<>>
              ELSE <<Diag("VariantConversionError")>>)
             \o (IF try_to_ok(height, "FLOAT")
                 THEN IF writes_height THEN <<UpdateOwners>> ELSE <<>>
                 ELSE <<Diag("VariantConversionError")>>))
  ELSE ShapeOutcome(sh, <<Diag("VariantConversionError")>>)

\* half_height = height * 0.5
RapierCylinderShape_set_data(sh, data) ==
  IF try_to_ok(data, "DICTIONARY")
  THEN LET radius == data.val.radius
           height == data.val.height
           sh1 == IF try_to_ok(radius, "FLOAT")
                  THEN [sh EXCEPT !.radius = radius.val]
                  ELSE sh
           sh2 == IF try_to_ok(height, "FLOAT")
                  THEN [sh1 EXCEPT !.half_height = height.val \div 2]
                  ELSE sh1
       IN  ShapeOutcome(sh2,
             (IF try_to_ok(radius, "FLOAT") THEN <<>>
                                            ELSE <<Diag("VariantConversionError")>>)
             \o (IF try_to_ok(height, "FLOAT") THEN <<>>
                                               ELSE <<Diag("VariantConversionError")>>))
  ELSE ShapeOutcome(sh, <<Diag("VariantConversionError")>>)

RapierShape_set_data(sh, data) ==
  CASE sh.kind = "sphere" -> RapierSphereShape_set_data(sh, data)
    [] sh.kind = "box" -> RapierBoxShape_set_data(sh, data)
    [] sh.kind = "capsule" -> RapierCapsuleShape_set_data(sh, data)
    [] sh.kind = "capsule_shape" -> capsule_shape_set_data(sh, data)
    [] sh.kind = "cylinder" -> RapierCylinderShape_set_data(sh, data)

-----------------------------------------------------------------------------
(* RapierBody: the live-state object, the body-state callback and the      *)
(* collision groups. heap.direct_states holds, in order of creation, every *)
(* RapierPhysicsDirectBodyState3D made by Gd::new ("live" until freed): it *)
(* is a manually managed Object, dropping a Gd that points to it frees     *)
(* nothing. Some(x) is <<x>> and None is <<>> for the direct_state field.  *)

HeapInit == [direct_states |-> <<>>, body_dropped |-> FALSE]

\* Gd::new: a new object, named by its position in the heap
Gd_new(h) == [h EXCEPT !.direct_states = Append(@, "live")]

\* Gd::free
Gd_free(h, gd) == [h EXCEPT !.direct_states[gd] = "freed"]

\* set_direct_state overwrites the field; the Gd it held before is dropped
set_direct_state(b, h) ==
  [body |-> [b EXCEPT !.direct_state = <<Len(h.direct_states) + 1>>],
   heap |-> Gd_new(h)]

\* impl Drop for RapierBody
drop(b, h) ==
  [body |-> [b EXCEPT !.direct_state = <<>>],
   heap |-> [(IF b.direct_state # <<>> THEN Gd_free(h, b.direct_state[1]) ELSE h)
               EXCEPT !.body_dropped = TRUE]]

\* Callable::invalid() or a callable of the host
Callable == {"invalid", "valid"}

Callable_is_valid(callable) == callable = "valid"

set_body_state_callback(b, sp, body_state_callback) ==
  Outcome([b EXCEPT !.body_state_callback = body_state_callback], sp)

\* body_state_callback.callv(array![direct_state])
Callv(direct_state) == [kind |-> "callback", cmd |-> "callv", arg |-> direct_state]

\* call_queries changes no field; these are the calls it makes
call_queries_events(b) ==
  IF b.direct_state # <<>>
  THEN IF b.sync_state /\ Callable_is_valid(b.body_state_callback)
       THEN <<Callv(b.direct_state[1])>>
       ELSE <<>>
  ELSE <<>>

\* set_collision_layer that stores the layer and tells the engine nothing
set_collision_layer_stores_only(b, sp, layer) ==
  Outcome([b EXCEPT !.collision_layer = layer], sp)

set_collision_layer(b, sp, layer) ==
  LET b1 == [b EXCEPT !.collision_layer = layer]
  IN  Outcome(b1,
              IF HasSpaceAndHandle(b1)
              THEN Space_set_body_collision_group(sp, b1.collision_layer,
                                                  b1.collision_mask)
              ELSE sp)

set_collision_mask(b, sp, mask) ==
  LET b1 == [b EXCEPT !.collision_mask = mask]
  IN  Outcome(b1,
              IF HasSpaceAndHandle(b1)
              THEN Space_set_body_collision_group(sp, b1.collision_layer,
                                                  b1.collision_mask)
              ELSE sp)

-----------------------------------------------------------------------------
(* Actions: one call of an operation of the body. ret records the call     *)
(* (operation, parameter id, argument or returned value), last_set the     *)
(* value last passed to set_param for each parameter, log what the call    *)
(* emitted; a panic ends the run.                                          *)

Call(op, id, v) == [op |-> op, id |-> id, v |-> v]

\* last_set after a call: set_param(id, v), set_linear_damp(v) and
\* set_angular_damp(v) set a parameter
LastSetAfter(call) ==
  CASE call.op = "set_param" -> [last_set EXCEPT ![call.id] = call.v]
    [] call.op = "set_linear_damp" ->
         [last_set EXCEPT !["BODY_PARAM_LINEAR_DAMP"] = Variant("FLOAT", call.v)]
    [] call.op = "set_angular_damp" ->
         [last_set EXCEPT !["BODY_PARAM_ANGULAR_DAMP"] = Variant("FLOAT", call.v)]
    [] OTHER -> last_set

\* what the call emits on the body b
Events(b, sp, call) ==
  CASE call.op = "remove_space" -> remove_space_events(b, call.v)
    [] call.op = "set_gravity_scale" -> engine_events(b, <<Cmd("set_gravity_scale")>>)
    [] call.op = "set_linear_damp" -> engine_events(b, <<Cmd("set_linear_damp")>>)
    [] call.op = "set_angular_damp" -> engine_events(b, <<Cmd("set_angular_damp")>>)
    [] call.op = "set_transform" -> set_transform_events(b)
    [] call.op = "set_body_mode" -> set_body_mode_events(b, call.v)
    [] call.op = "set_param" -> set_param_events(b, call.id, call.v)
    [] call.op = "set_state" -> set_state_events(b, call.id)
    [] call.op = "pre_step" -> pre_step_events(b, sp)
    [] call.op = "total_gravity" -> total_gravity_events(b, sp)
    [] call.op = "total_linear_damp" -> total_linear_damp_events(b)
    [] call.op = "total_angular_damp" -> total_angular_damp_events(b)
    [] call.op = "get_state" -> get_state_events(b, call.id)
    [] call.op \in {"center_of_mass", "local_center_of_mass", "inverse_mass"} ->
         accessor_events(b)
    [] call.op \in {"inverse_inertia", "inverse_inertia_tensor"} ->
         inverse_inertia_events(b)
    [] call.op = "add_constant_force" -> add_constant_force_events(b)
    [] call.op = "apply_central_force" -> engine_events(b, <<Cmd("apply_central_force")>>)
    [] call.op = "apply_torque" -> engine_events(b, <<Cmd("apply_torque")>>)
    [] call.op = "call_queries" -> call_queries_events(b)
    [] call.op = "reset_mass_properties" -> engine_events(b, <<Cmd("set_mass")>>)
    [] call.op \in {"set_collision_layer", "set_collision_mask"} ->
         engine_events(b, <<Cmd("set_body_collision_group")>>)
    [] OTHER -> <<>>

Apply(o, call) ==
  /\ ~panicked
  /\ ~heap.body_dropped
  /\ UNCHANGED <<rapier_area, rapier_shape, heap>>
  /\ log' = Events(body, space, call)
  /\ body' = o.body
  /\ space' = o.space
  /\ panicked' = o.panic
  /\ ret' = call
  /\ last_set' = IF o.panic THEN last_set ELSE LastSetAfter(call)

\* a call of a read-only operation: ret.v is what it returned
Query(call) ==
  /\ ~panicked
  /\ ret' = call
  /\ log' = Events(body, space, call)
  /\ ~heap.body_dropped
  /\ UNCHANGED <<body, rapier_area, rapier_shape, space, last_set, panicked, heap>>

SetSpace == Apply(set_space(body, space), Call("set_space", "set_space", 0))

SetHandle == Apply(set_handle(body, space), Call("set_handle", "set_handle", 0))

RemoveSpace(remove_from_space) ==
  Apply(remove_space(body, space, remove_from_space),
        Call("remove_space", "remove_space", remove_from_space))

SetGravityScale(v) ==
  Apply(set_gravity_scale(body, space, v), Call("set_gravity_scale", "set_gravity_scale", v))

SetTransform(value) ==
  Apply(set_transform(body, space, value), Call("set_transform", "set_transform", value))

SetBodyMode(mode) ==
  Apply(set_body_mode(body, space, mode), Call("set_body_mode", "set_body_mode", mode))

SetParam(param, value) ==
  Apply(set_param(body, space, param, value), Call("set_param", param, value))

SetState(state, value) ==
  Apply(set_state(body, space, state, value), Call("set_state", state, value))

PreStep(step) == Apply(pre_step(body, space, step), Call("pre_step", "pre_step", step))

TotalGravity ==
  Query(Call("total_gravity", "total_gravity", total_gravity(body, space)))

TotalLinearDamp ==
  Query(Call("total_linear_damp", "total_linear_damp", total_linear_damp(body, space)))

TotalAngularDamp ==
  Query(Call("total_angular_damp", "total_angular_damp", total_angular_damp(body, space)))

\* a body fresh from RapierBody::new, overlapping the given areas
InitWith(areas) ==
  /\ body = [new EXCEPT !.areas = areas]
  /\ rapier_area = RapierArea_new
  /\ space = SpaceInit
  /\ ret = Call("new", "new", 0)
  /\ last_set = [param \in BodyParameter |-> Variant("NIL", 0)]
  /\ panicked = FALSE
  /\ log = <<>>
  /\ heap = HeapInit
  /\ rapier_shape = RapierSphereShape_new

SetLinearDamp(v) ==
  Apply(set_linear_damp(body, space, v), Call("set_linear_damp", "set_linear_damp", v))

SetAngularDamp(v) ==
  Apply(set_angular_damp(body, space, v), Call("set_angular_damp", "set_angular_damp", v))

GetState(state) == Query(Call("get_state", state, get_state(body, space, state)))

CenterOfMass ==
  Query(Call("center_of_mass", "center_of_mass", center_of_mass(body, space)))

LocalCenterOfMass ==
  Query(Call("local_center_of_mass", "local_center_of_mass",
             local_center_of_mass(body, space)))

InverseMass == Query(Call("inverse_mass", "inverse_mass", inverse_mass(body, space)))

InverseInertia ==
  Query(Call("inverse_inertia", "inverse_inertia", inverse_inertia(body, space)))

InverseInertiaTensor ==
  Query(Call("inverse_inertia_tensor", "inverse_inertia_tensor",
             inverse_inertia_tensor(body, space)))

AddConstantForce(force, position) ==
  Apply(add_constant_force(body, space, force, position),
        Call("add_constant_force", "add_constant_force",
             [force |-> force, position |-> position]))

ApplyCentralForce(force) ==
  Apply(apply_central_force(body, space, force),
        Call("apply_central_force", "apply_central_force", force))

ApplyTorque(torque) ==
  Apply(apply_torque(body, space, torque), Call("apply_torque", "apply_torque", torque))

\* a call of an operation of the area
ApplyArea(a, sp, events, call) ==
  /\ ~panicked
  /\ rapier_area' = a
  /\ space' = sp
  /\ log' = events
  /\ ret' = call
  /\ UNCHANGED <<body, rapier_shape, last_set, panicked, heap>>

AreaSetSpace ==
  ApplyArea(RapierArea_set_space(rapier_area), space, <<>>,
            Call("area_set_space", "area_set_space", 0))

\* set_handle stores the handle the Space hands out for the engine object it
\* has inserted for this area
AreaSetHandle ==
  ApplyArea(RapierArea_set_handle(rapier_area), Space_insert_area(space), <<>>,
            Call("area_set_handle", "area_set_handle", 0))

AreaRemoveFromSpace ==
  ApplyArea(rapier_area, RapierArea_remove_from_space(rapier_area, space),
            RapierArea_remove_from_space_events(rapier_area),
            Call("area_remove_from_space", "area_remove_from_space", 0))

AreaRemoveSpace ==
  ApplyArea(RapierArea_remove_space(rapier_area), space, <<>>,
            Call("area_remove_space", "area_remove_space", 0))

\* a call of an operation that creates or frees objects
ApplyHeap(o, call) ==
  /\ ~panicked
  /\ ~heap.body_dropped
  /\ body' = o.body
  /\ heap' = o.heap
  /\ log' = <<>>
  /\ ret' = call
  /\ UNCHANGED <<rapier_area, rapier_shape, space, last_set, panicked>>

SetDirectState ==
  /\ Len(heap.direct_states) < MaxDirectStates
  /\ ApplyHeap(set_direct_state(body, heap),
               Call("set_direct_state", "set_direct_state", 0))

Drop == ApplyHeap(drop(body, heap), Call("drop", "drop", 0))

SetBodyStateCallback(body_state_callback) ==
  Apply(set_body_state_callback(body, space, body_state_callback),
        Call("set_body_state_callback", "set_body_state_callback",
             body_state_callback))

CallQueries == Apply(Outcome(body, space), Call("call_queries", "call_queries", 0))

ResetMassProperties ==
  Apply(reset_mass_properties(body, space),
        Call("reset_mass_properties", "reset_mass_properties", 0))

SetCollisionLayer(layer) ==
  Apply(set_collision_layer(body, space, layer),
        Call("set_collision_layer", "set_collision_layer", layer))

SetCollisionMask(mask) ==
  Apply(set_collision_mask(body, space, mask),
        Call("set_collision_mask", "set_collision_mask", mask))

AreaSetParam(param, value) ==
  LET o == RapierArea_set_param(rapier_area, param, value)
  IN  /\ ~panicked
      /\ rapier_area' = o.area
      /\ panicked' = o.panic
      /\ log' = o.events
      /\ ret' = Call("area_set_param", param, value)
      /\ UNCHANGED <<body, rapier_shape, space, last_set, heap>>

AreaGetParam(param) ==
  /\ ~panicked
  /\ ret' = Call("area_get_param", param, RapierArea_get_param(rapier_area, param))
  /\ log' = <<>>
  /\ UNCHANGED <<body, rapier_area, rapier_shape, space, last_set, panicked, heap>>

\* a call of an operation of the shape
ApplyShape(sh, events, call) ==
  /\ ~panicked
  /\ rapier_shape' = sh
  /\ log' = events
  /\ ret' = call
  /\ UNCHANGED <<body, rapier_area, space, last_set, panicked, heap>>

ShapeNew(kind) == ApplyShape(RapierShape_new(kind), <<>>, Call("shape_new", kind, 0))

ShapeSetData(data) ==
  LET o == RapierShape_set_data(rapier_shape, data)
  IN  ApplyShape(o.shape, o.events, Call("shape_set_data", rapier_shape.kind, data))

\* the sequences over S of length at most n
SeqUpTo(S, n) == UNION {[1..k -> S] : k \in 0..n}

-----------------------------------------------------------------------------
(* SpecGravity: total_gravity over every list of overlapping areas         *)

\* areas with their gravity fields set: a directional field of magnitude 1
\* along X, or a point field of magnitude 2 centred at (0, 0, 2)
GravityAreas ==
  {[AreaDefault EXCEPT !.gravity_mode = m,
                       !.gravity = g,
                       !.is_point_gravity = (g = 2),
                       !.gravity_vector = IF g = 2 THEN Vector3(0, 0, 2)
                                                   ELSE Vector3(1, 0, 0)] :
     m \in AreaSpaceOverrideMode, g \in {1, 2}}

GravityTransforms == {[origin |-> Vector3(0, 1, 0), rotation |-> 0, scale |-> 1]}

InitGravity == \E areas \in SeqUpTo(GravityAreas, MaxAreas) : InitWith(areas)

NextGravity ==
  \/ SetSpace
  \/ SetHandle
  \/ \E v \in {2} : SetGravityScale(v)
  \/ \E t \in GravityTransforms : SetTransform(t)
  \/ TotalGravity

SpecGravity == InitGravity /\ [][NextGravity]_vars

-----------------------------------------------------------------------------
(* SpecDamp: total_linear_damp and total_angular_damp over every list of   *)
(* overlapping areas, with the body's damp parameters set through          *)
(* set_param, set_linear_damp and set_angular_damp                         *)

NextOverrideMode(m) ==
  CASE m = AREA_SPACE_OVERRIDE_DISABLED -> AREA_SPACE_OVERRIDE_COMBINE
    [] m = AREA_SPACE_OVERRIDE_COMBINE -> AREA_SPACE_OVERRIDE_COMBINE_REPLACE
    [] m = AREA_SPACE_OVERRIDE_COMBINE_REPLACE -> AREA_SPACE_OVERRIDE_REPLACE
    [] m = AREA_SPACE_OVERRIDE_REPLACE -> AREA_SPACE_OVERRIDE_REPLACE_COMBINE
    [] OTHER -> AREA_SPACE_OVERRIDE_DISABLED

\* the damp value the areas of a mode are given, distinct for each mode
DampOfMode(m) ==
  CASE m = AREA_SPACE_OVERRIDE_DISABLED -> 2
    [] m = AREA_SPACE_OVERRIDE_COMBINE -> 3
    [] m = AREA_SPACE_OVERRIDE_COMBINE_REPLACE -> 4
    [] m = AREA_SPACE_OVERRIDE_REPLACE -> 5
    [] OTHER -> 6

\* areas with their damp fields set; the angular mode and value of an area
\* differ from its linear ones
DampAreas ==
  {[AreaDefault EXCEPT !.linear_damp_mode = m,
                       !.linear_damp = DampOfMode(m),
                       !.angular_damp_mode = NextOverrideMode(m),
                       !.angular_damp = 10 + DampOfMode(m)] :
     m \in AreaSpaceOverrideMode}

DampParamValues(param) ==
  CASE ParamType(param) = "DAMP_MODE" -> {Variant("DAMP_MODE", m) : m \in DampMode}
    [] param = "BODY_PARAM_LINEAR_DAMP" -> {Variant("FLOAT", 7)}
    [] OTHER -> {Variant("FLOAT", 8)}

InitDamp == \E areas \in SeqUpTo(DampAreas, MaxDampAreas) : InitWith(areas)

NextDamp ==
  \/ SetSpace
  \/ \E param \in {"BODY_PARAM_LINEAR_DAMP_MODE", "BODY_PARAM_ANGULAR_DAMP_MODE",
                   "BODY_PARAM_LINEAR_DAMP", "BODY_PARAM_ANGULAR_DAMP"} :
       \E value \in DampParamValues(param) : SetParam(param, value)
  \/ \E v \in {7} : SetLinearDamp(v)
  \/ \E v \in {8} : SetAngularDamp(v)
  \/ TotalLinearDamp
  \/ TotalAngularDamp

SpecDamp == InitDamp /\ [][NextDamp]_vars

-----------------------------------------------------------------------------
(* SpecParam: set_param / get_param on a body before and after it is      *)
(* attached and moved                                                      *)

InitNew == InitWith(<<>>)

ParamValues(param) ==
  CASE ParamType(param) = "DAMP_MODE" -> {Variant("DAMP_MODE", m) : m \in DampMode}
    [] ParamType(param) = "VECTOR3" -> {Variant("VECTOR3", Vector3(1, 0, 0))}
    [] param = "BODY_PARAM_LINEAR_DAMP" -> {Variant("FLOAT", 7)}
    [] param = "BODY_PARAM_ANGULAR_DAMP" -> {Variant("FLOAT", 8)}
    [] OTHER -> {Variant("FLOAT", 2)}

ParamTransforms == {[origin |-> Vector3(0, 1, 0), rotation |-> 1, scale |-> 1]}

NextParam ==
  \/ SetSpace
  \/ SetHandle
  \/ \E t \in ParamTransforms : SetTransform(t)
  \/ \E param \in BodyParameter : \E value \in ParamValues(param) : SetParam(param, value)

SpecParam == InitNew /\ [][NextParam]_vars

-----------------------------------------------------------------------------
(* SpecState: set_state / get_state, set_body_mode and pre_step on a body  *)
(* that is attached and detached                                           *)

StateValues(state) ==
  CASE StateType(state) = "TRANSFORM3D" ->
         {Variant("TRANSFORM3D", [origin |-> Vector3(1, 0, 0), rotation |-> 1, scale |-> 1]),
          Variant("TRANSFORM3D", [origin |-> Vector3(0, 1, 0), rotation |-> 0, scale |-> 2])}
    [] StateType(state) = "VECTOR3" -> {Variant("VECTOR3", Vector3(0, 0, 1))}
    [] OTHER -> {Variant("BOOL", FALSE), Variant("BOOL", TRUE)}

NextState ==
  \/ SetSpace
  \/ SetHandle
  \/ \E remove_from_space \in BOOLEAN : RemoveSpace(remove_from_space)
  \/ \E mode \in BodyMode : SetBodyMode(mode)
  \/ \E state \in BodyState : \E value \in StateValues(state) : SetState(state, value)
  \/ \E step \in {1} : PreStep(step)

SpecState == InitNew /\ [][NextState]_vars

-----------------------------------------------------------------------------
(* SpecMass: the inverse mass and inertia queries in every body mode, with *)
(* and without an engine body                                              *)

MassValues == {Variant("FLOAT", 2)}

InertiaValues == {Variant("VECTOR3", Vector3(1, 2, 4))}

NextMass ==
  \/ SetSpace
  \/ SetHandle
  \/ \E remove_from_space \in BOOLEAN : RemoveSpace(remove_from_space)
  \/ \E mode \in BodyMode : SetBodyMode(mode)
  \/ \E value \in MassValues : SetParam("BODY_PARAM_MASS", value)
  \/ \E value \in InertiaValues : SetParam("BODY_PARAM_INERTIA", value)
  \/ InverseMass
  \/ InverseInertia
  \/ InverseInertiaTensor

SpecMass == InitNew /\ [][NextMass]_vars

-----------------------------------------------------------------------------
(* SpecForce: add_constant_force on a body that is moved, attached and     *)
(* given a center of mass                                                  *)

ForceTransforms == {[origin |-> Vector3(1, 0, 0), rotation |-> 0, scale |-> 1]}

ForceValues == {Vector3(0, 1, 0)}

ForcePositions == {ZERO, Vector3(1, 0, 0), Vector3(1, 0, 1)}

CenterOfMassValues == {Variant("VECTOR3", Vector3(0, 0, 1))}

NextForce ==
  \/ SetSpace
  \/ SetHandle
  \/ \E t \in ForceTransforms : SetTransform(t)
  \/ \E value \in CenterOfMassValues : SetParam("BODY_PARAM_CENTER_OF_MASS", value)
  \/ \E force \in ForceValues : \E position \in ForcePositions :
       /\ body.constant_force[2] < MaxForce
       /\ AddConstantForce(force, position)

SpecForce == InitNew /\ [][NextForce]_vars

-----------------------------------------------------------------------------------------------------------------------------------------------------
(* SpecDetached: the accessors, setters, forces and pre_step called on a   *)
(* body while it has neither a space nor a handle: before it is attached   *)
(* and after it is detached                                                *)

Detached(b) == b.space = "None" /\ b.handle = "None"

DetachedModes == {BODY_MODE_KINEMATIC, BODY_MODE_RIGID}

DetachedStates ==
  {"BODY_STATE_TRANSFORM", "BODY_STATE_LINEAR_VELOCITY", "BODY_STATE_ANGULAR_VELOCITY",
   "BODY_STATE_SLEEPING"}

DetachedStateValues(state) ==
  CASE StateType(state) = "TRANSFORM3D" ->
         {Variant("TRANSFORM3D", [origin |-> Vector3(1, 0, 0), rotation |-> 1, scale |-> 2])}
    [] StateType(state) = "VECTOR3" -> {Variant("VECTOR3", Vector3(0, 0, 1))}
    [] OTHER -> {Variant("BOOL", TRUE)}

\* the calls made on the body while it is detached
CallDetached ==
  \/ \E mode \in DetachedModes : SetBodyMode(mode)
  \/ \E state \in DetachedStates : \E value \in DetachedStateValues(state) :
       SetState(state, value)
  \/ \E state \in DetachedStates : GetState(state)
  \/ CenterOfMass
  \/ LocalCenterOfMass
  \/ TotalGravity
  \/ \E force \in ForceValues :
       /\ body.constant_force[2] < MaxForce
       /\ AddConstantForce(force, ZERO)
  \/ \E force \in ForceValues : ApplyCentralForce(force)
  \/ \E torque \in ForceValues : ApplyTorque(torque)
  \/ \E step \in {1} : PreStep(step)

NextDetached ==
  \/ SetSpace
  \/ SetHandle
  \/ \E remove_from_space \in BOOLEAN : RemoveSpace(remove_from_space)
  \/ Detached(body) /\ CallDetached

SpecDetached == InitNew /\ [][NextDetached]_vars

-----------------------------------------------------------------------------
(* SpecAttach: a body and an area attached to and detached from the space, *)
(* and a setter of the body in between                                     *)

NextAttach ==
  \/ SetSpace
  \/ SetHandle
  \/ \E remove_from_space \in BOOLEAN : RemoveSpace(remove_from_space)
  \/ \E mode \in BodyMode : SetBodyMode(mode)
  \/ AreaSetSpace
  \/ AreaSetHandle
  \/ AreaRemoveFromSpace
  \/ AreaRemoveSpace

SpecAttach == InitNew /\ [][NextAttach]_vars

-----------------------------------------------------------------------------
(* SpecAreaParam: set_param and get_param of an area *)

\* one value of the type of each parameter, the REPLACE mode by its ordinal
AreaParamValues(param) ==
  CASE AreaParamType(param) = "INT" ->
         {Variant_from_mode(AREA_SPACE_OVERRIDE_REPLACE)}
    [] AreaParamType(param) = "VECTOR3" -> {Variant("VECTOR3", Vector3(1, 0, 0))}
    [] AreaParamType(param) = "BOOL" -> {Variant("BOOL", TRUE)}
    [] OTHER -> {Variant("FLOAT", 2)}

NextAreaParam ==
  \/ \E param \in AreaParameter : \E value \in AreaParamValues(param) :
       AreaSetParam(param, value)
  \/ \E param \in AreaParameter : AreaGetParam(param)

SpecAreaParam == InitNew /\ [][NextAreaParam]_vars

-----------------------------------------------------------------------------
(* SpecMalformed: setters given data of the right and of the wrong shape *)

\* the entries of a Dictionary: a radius of 0.4 or none, a height of 0.8,
\* none, or a bool
DictionaryValues ==
  {Variant("DICTIONARY", [radius |-> radius, height |-> height]) :
     radius \in {Variant("FLOAT", 4), Variant("NIL", 0)},
     height \in {Variant("FLOAT", 8), Variant("NIL", 0), Variant("BOOL", TRUE)}}

ShapeDataValues ==
  {Variant("FLOAT", 4), Variant("VECTOR3", Vector3(4, 4, 4)), Variant("NIL", 0)}
  \cup DictionaryValues

\* a Variant that is not of the type of the parameter
MalformedParamValues(param) ==
  IF ParamType(param) = "FLOAT"
  THEN {Variant("VECTOR3", Vector3(1, 0, 0))}
  ELSE {Variant("FLOAT", 2)}

NextMalformed ==
  \/ \E kind \in ShapeKind : ShapeNew(kind)
  \/ \E data \in ShapeDataValues : ShapeSetData(data)
  \/ \E param \in BodyParameter : \E value \in MalformedParamValues(param) :
       SetParam(param, value)

SpecMalformed == InitNew /\ [][NextMalformed]_vars

-----------------------------------------------------------------------------
(* SpecMassProps: the setters of the mass properties on a body that is     *)
(* attached and detached                                                   *)

\* a zero inertia (the engine computes it) and one that is not zero
MassPropsInertiaValues ==
  {Variant("VECTOR3", ZERO), Variant("VECTOR3", Vector3(1, 2, 4))}

NextMassProps ==
  \/ SetSpace
  \/ SetHandle
  \/ \E remove_from_space \in BOOLEAN : RemoveSpace(remove_from_space)
  \/ \E value \in MassValues : SetParam("BODY_PARAM_MASS", value)
  \/ \E value \in MassPropsInertiaValues : SetParam("BODY_PARAM_INERTIA", value)
  \/ \E value \in CenterOfMassValues : SetParam("BODY_PARAM_CENTER_OF_MASS", value)
  \/ ResetMassProperties

SpecMassProps == InitNew /\ [][NextMassProps]_vars

-----------------------------------------------------------------------------
(* SpecObject: the life of a body as an object: its collision layer and    *)
(* mask, its live-state object and callback, and its destruction           *)

\* layers and masks: one bit, another bit, and bits 0 to 30 at once (the
\* values are stored and passed on, never computed with)
CollisionBits == {2, 4, 2147483647}

NextObject ==
  \/ SetSpace
  \/ SetHandle
  \/ \E remove_from_space \in BOOLEAN : RemoveSpace(remove_from_space)
  \/ \E layer \in CollisionBits : SetCollisionLayer(layer)
  \/ \E mask \in CollisionBits : SetCollisionMask(mask)
  \/ SetDirectState
  \/ \E body_state_callback \in Callable : SetBodyStateCallback(body_state_callback)
  \/ CallQueries
  \/ Drop

SpecObject == InitNew /\ [][NextObject]_vars

-----------------------------------------------------------------------------
(* Properties of total_gravity (SpecGravity)                               *)

\* the position total_gravity evaluates the areas at
GravityPosition == transform(body, space).origin

AreaGravity(i) == compute_gravity(body.areas[i], GravityPosition)

DefaultGravity == compute_gravity(space.default_area, GravityPosition)

GravityMode(i) == body.areas[i].gravity_mode

\* the sum of the gravities of the areas whose index is in S
RECURSIVE SumGravity(_)
SumGravity(S) ==
  IF S = {}
  THEN ZERO
  ELSE LET i == CHOOSE j \in S : TRUE
       IN  VAdd(AreaGravity(i), SumGravity(S \ {i}))

StoppingModes == {AREA_SPACE_OVERRIDE_REPLACE, AREA_SPACE_OVERRIDE_COMBINE_REPLACE}

AccumulatingModes ==
  {AREA_SPACE_OVERRIDE_COMBINE, AREA_SPACE_OVERRIDE_COMBINE_REPLACE,
   AREA_SPACE_OVERRIDE_REPLACE_COMBINE}

\* area k is reached by the iteration
GravityReached(k) == \A i \in 1..(k - 1) : GravityMode(i) \notin StoppingModes

ModesAre(modes) ==
  /\ Len(body.areas) = Len(modes)
  /\ \A i \in 1..Len(modes) : GravityMode(i) = modes[i]

\* C1: on a body attached to a space whose areas are all COMBINE or
\* DISABLED, total_gravity is gravity_scale times the sum of the gravities
\* of the COMBINE areas plus the gravity of the default area.
C1_CombineSum ==
  (/\ ret.op = "total_gravity"
   /\ body.space # "None"
   /\ \A i \in DOMAIN body.areas :
        GravityMode(i) \in {AREA_SPACE_OVERRIDE_COMBINE, AREA_SPACE_OVERRIDE_DISABLED})
  => ret.v =
       VScale(body.gravity_scale,
              VAdd(SumGravity({i \in DOMAIN body.areas :
                                 GravityMode(i) = AREA_SPACE_OVERRIDE_COMBINE}),
                   DefaultGravity))

C1_Witness ==
  /\ ret.op = "total_gravity"
  /\ body.space # "None"
  /\ body.gravity_scale = 2
  /\ ModesAre(<<AREA_SPACE_OVERRIDE_COMBINE, AREA_SPACE_OVERRIDE_DISABLED,
                AREA_SPACE_OVERRIDE_COMBINE>>)
  /\ AreaGravity(1) # AreaGravity(3)

\* C2: when area k is REPLACE and no earlier area stops the iteration,
\* total_gravity is gravity_scale times the gravity of area k alone.
C2_ReplaceMasks ==
  ret.op = "total_gravity"
  => \A k \in DOMAIN body.areas :
       (GravityMode(k) = AREA_SPACE_OVERRIDE_REPLACE /\ GravityReached(k))
       => ret.v = VScale(body.gravity_scale, AreaGravity(k))

C2_Witness ==
  /\ ret.op = "total_gravity"
  /\ body.space # "None"
  /\ ModesAre(<<AREA_SPACE_OVERRIDE_COMBINE, AREA_SPACE_OVERRIDE_REPLACE,
                AREA_SPACE_OVERRIDE_COMBINE>>)
  /\ AreaGravity(1) # ZERO
  /\ AreaGravity(3) # ZERO

\* the running total after area k: the gravities of the accumulating areas
\* from the last REPLACE_COMBINE area (or the first area) up to area k
RunningGravity(k) ==
  LET resets == {i \in 1..k : GravityMode(i) = AREA_SPACE_OVERRIDE_REPLACE_COMBINE}
      from == IF resets = {} THEN 1 ELSE CHOOSE i \in resets : \A j \in resets : j <= i
  IN  SumGravity({i \in from..k : GravityMode(i) \in AccumulatingModes})

\* C3: when the first stopping area k is COMBINE_REPLACE, total_gravity is
\* gravity_scale times the running total up to and including area k; later
\* areas and the default area add nothing.
C3_CombineReplaceStops ==
  ret.op = "total_gravity"
  => \A k \in DOMAIN body.areas :
       (GravityMode(k) = AREA_SPACE_OVERRIDE_COMBINE_REPLACE /\ GravityReached(k))
       => ret.v = VScale(body.gravity_scale, RunningGravity(k))

C3_Witness ==
  /\ ret.op = "total_gravity"
  /\ body.space # "None"
  /\ ModesAre(<<AREA_SPACE_OVERRIDE_COMBINE, AREA_SPACE_OVERRIDE_COMBINE_REPLACE,
                AREA_SPACE_OVERRIDE_COMBINE>>)
  /\ ret.v = VScale(body.gravity_scale, VAdd(AreaGravity(1), AreaGravity(2)))
  /\ AreaGravity(3) # ZERO

\* C4: a REPLACE_COMBINE area k that is reached discards what the areas
\* before it contributed (the result is that of the list starting at k) and
\* does not stop: when only COMBINE and DISABLED areas follow, the result is
\* gravity_scale times (area k + the later COMBINE areas + the default area
\* of the space, if attached).
C4_ReplaceCombineContinues ==
  ret.op = "total_gravity"
  => \A k \in DOMAIN body.areas :
       (GravityMode(k) = AREA_SPACE_OVERRIDE_REPLACE_COMBINE /\ GravityReached(k))
       => LET n == Len(body.areas)
              later == (k + 1)..n
          IN  /\ ret.v = total_gravity([body EXCEPT !.areas = SubSeq(body.areas, k, n)],
                                       space)
              /\ (\A i \in later :
                    GravityMode(i) \in {AREA_SPACE_OVERRIDE_COMBINE,
                                        AREA_SPACE_OVERRIDE_DISABLED})
                 => ret.v =
                      VScale(body.gravity_scale,
                             VAdd(VAdd(AreaGravity(k),
                                       SumGravity({i \in later :
                                                     GravityMode(i) =
                                                       AREA_SPACE_OVERRIDE_COMBINE})),
                                  IF body.space # "None" THEN DefaultGravity ELSE ZERO))

C4_Witness ==
  /\ ret.op = "total_gravity"
  /\ body.space # "None"
  /\ ModesAre(<<AREA_SPACE_OVERRIDE_COMBINE, AREA_SPACE_OVERRIDE_REPLACE_COMBINE,
                AREA_SPACE_OVERRIDE_COMBINE>>)
  /\ AreaGravity(1) # ZERO
  /\ ret.v = VScale(body.gravity_scale,
                    VAdd(VAdd(AreaGravity(2), AreaGravity(3)), DefaultGravity))

-----------------------------------------------------------------------------
(* Properties of total_linear_damp and total_angular_damp (SpecDamp)       *)

\* the fold total_gravity computes, applied to damp values: each area is
\* given the damp mode as its gravity mode and the damp value as a gravity
\* along X, and so is the default area
DampAsGravity(mode, damp) ==
  [AreaDefault EXCEPT !.gravity_mode = mode,
                      !.gravity = damp,
                      !.gravity_vector = Vector3(1, 0, 0)]

GravityFoldOfLinearDamp ==
  total_gravity(
    [new EXCEPT !.space = body.space,
                !.areas = [i \in DOMAIN body.areas |->
                             DampAsGravity(body.areas[i].linear_damp_mode,
                                           body.areas[i].linear_damp)]],
    [space EXCEPT !.default_area =
       DampAsGravity(AREA_SPACE_OVERRIDE_COMBINE, space.default_area.linear_damp)])[1]

GravityFoldOfAngularDamp ==
  total_gravity(
    [new EXCEPT !.space = body.space,
                !.areas = [i \in DOMAIN body.areas |->
                             DampAsGravity(body.areas[i].angular_damp_mode,
                                           body.areas[i].angular_damp)]],
    [space EXCEPT !.default_area =
       DampAsGravity(AREA_SPACE_OVERRIDE_COMBINE, space.default_area.angular_damp)])[1]

\* C6: with the body's damp mode COMBINE, total_linear_damp (total_angular_damp)
\* is the override fold of total_gravity applied to the areas' linear
\* (angular) damp modes and values, default area included when nothing
\* stops the iteration, plus the body's own linear_damp (angular_damp); each
\* reads only its own fields.
C6_DampFold ==
  /\ (ret.op = "total_linear_damp" /\ body.linear_damp_mode = DAMP_MODE_COMBINE)
     => ret.v = GravityFoldOfLinearDamp + body.linear_damp
  /\ (ret.op = "total_angular_damp" /\ body.angular_damp_mode = DAMP_MODE_COMBINE)
     => ret.v = GravityFoldOfAngularDamp + body.angular_damp

\* areas REPLACE (angular REPLACE_COMBINE, 15) and DISABLED (angular COMBINE,
\* 12), the default area (1) and the body's own angular damp (8)
C6_Witness ==
  /\ ret.op = "total_angular_damp"
  /\ body.angular_damp_mode = DAMP_MODE_COMBINE
  /\ body.linear_damp_mode = DAMP_MODE_REPLACE
  /\ body.space # "None"
  /\ body.angular_damp = 8
  /\ Len(body.areas) = 2
  /\ body.areas[1].angular_damp_mode = AREA_SPACE_OVERRIDE_REPLACE_COMBINE
  /\ body.areas[2].angular_damp_mode = AREA_SPACE_OVERRIDE_COMBINE
  /\ ret.v = 36

\* the value last set for a damp parameter, 0 (RapierBody::new) if never set
LastSetDamp(param) ==
  IF last_set[param].type = "FLOAT" THEN last_set[param].val ELSE 0

\* C7: with the body's damp mode REPLACE, total_linear_damp
\* (total_angular_damp) is the linear_damp (angular_damp) value last set,
\* whatever the areas are.
C7_ReplaceReturnsOwnDamp ==
  /\ (ret.op = "total_linear_damp" /\ body.linear_damp_mode = DAMP_MODE_REPLACE)
     => ret.v = LastSetDamp("BODY_PARAM_LINEAR_DAMP")
  /\ (ret.op = "total_angular_damp" /\ body.angular_damp_mode = DAMP_MODE_REPLACE)
     => ret.v = LastSetDamp("BODY_PARAM_ANGULAR_DAMP")

\* C9: a call that sets the linear damp stores it in linear_damp and leaves
\* angular_damp unchanged; a call that sets the angular damp stores it in
\* angular_damp and leaves linear_damp unchanged.
C9_DampSettersFrame ==
  [][/\ ((ret'.op = "set_param" /\ ret'.id = "BODY_PARAM_LINEAR_DAMP")
         => (body'.linear_damp = ret'.v.val /\ body'.angular_damp = body.angular_damp))
     /\ (ret'.op = "set_linear_damp"
         => (body'.linear_damp = ret'.v /\ body'.angular_damp = body.angular_damp))
     /\ ((ret'.op = "set_param" /\ ret'.id = "BODY_PARAM_ANGULAR_DAMP")
         => (body'.angular_damp = ret'.v.val /\ body'.linear_damp = body.linear_damp))
     /\ (ret'.op = "set_angular_damp"
         => (body'.angular_damp = ret'.v /\ body'.linear_damp = body.linear_damp))
    ]_vars

-----------------------------------------------------------------------------
(* Properties of the RefCell borrows (SpecState) *)

\* C5: no operation of the body panics on a RefCell borrow conflict; the
\* calls of SpecState are well typed, so a panic there is a borrow conflict.
\* pre_step on a RIGID body with a space and a handle is such an operation.
C5_NoBorrowPanic == ~panicked

-----------------------------------------------------------------------------
(* Properties of set_param / get_param (SpecParam) *)

\* C8: for every parameter id p and value v of the type of p, get_param(p)
\* right after set_param(p, v) returns v.
C8_ParamRoundTrip ==
  (ret.op = "set_param" /\ ~panicked) => get_param(body, space, ret.id) = ret.v

-----------------------------------------------------------------------------
(* Properties of set_state / get_state (SpecState) *)

\* C10 as stated: for every state id s and value v of the type of s,
\* get_state(s) right after set_state(s, v) returns v, the transform of a
\* KINEMATIC body with a space and a handle included.
C10_StateRoundTrip ==
  (ret.op = "set_state" /\ ~panicked) => get_state(body, space, ret.id) = ret.v

\* C10 amended: get_state(s) right after set_state(s, v) returns v for the
\* velocities, sleeping and can-sleep, and for the transform of a body
\* without an engine body. With an engine body the transform read back is
\* the engine's pose: v with its scale dropped for a body that is not
\* KINEMATIC, and the pose from before the call for a KINEMATIC body.
C10_StateRoundTripAmended ==
  [][(ret'.op = "set_state" /\ ~panicked') =>
       LET got == get_state(body', space', ret'.id)
       IN  CASE ret'.id # "BODY_STATE_TRANSFORM" -> got = ret'.v
             [] ~HasEngineBody(body', space') -> got = ret'.v
             [] is_kinematic(body') ->
                  /\ HasEngineBody(body, space)
                  /\ got = Variant("TRANSFORM3D", transform(body, space))
                  /\ body'.kinematic_isometry = transform_to_isometry(ret'.v.val)[1]
             [] OTHER ->
                  got = Variant("TRANSFORM3D", [ret'.v.val EXCEPT !.scale = 1])]_vars

\* set_state(TRANSFORM, v) on a KINEMATIC body with an engine body, after
\* which the transform read back is not v
C10_Witness ==
  /\ ret.op = "set_state"
  /\ ret.id = "BODY_STATE_TRANSFORM"
  /\ ~panicked
  /\ HasEngineBody(body, space)
  /\ is_kinematic(body)
  /\ get_state(body, space, "BODY_STATE_TRANSFORM") # ret.v
  /\ body.kinematic_isometry = transform_to_isometry(ret.v.val)[1]

-----------------------------------------------------------------------------
(* Properties of pre_step on a KINEMATIC body (SpecState) *)

\* C11 as stated: after pre_step on a KINEMATIC body the velocities that
\* linear_velocity(), angular_velocity() and get_state report are zero,
\* whatever was set before and whether or not the body has a space.
C11_KinematicVelocityZero ==
  (ret.op = "pre_step" /\ ~panicked /\ is_kinematic(body)) =>
    /\ linear_velocity(body, space) = ZERO
    /\ angular_velocity(body, space) = ZERO
    /\ get_state(body, space, "BODY_STATE_LINEAR_VELOCITY") = Variant("VECTOR3", ZERO)
    /\ get_state(body, space, "BODY_STATE_ANGULAR_VELOCITY") = Variant("VECTOR3", ZERO)

\* C11 amended: after pre_step on a KINEMATIC body with a space and a handle
\* the reported velocities are zero whatever was set before; on a KINEMATIC
\* body lacking either, pre_step changes nothing and the velocities reported
\* stay the stored ones.
C11_KinematicVelocityZeroAttached ==
  [][(ret'.op = "pre_step" /\ ~panicked' /\ is_kinematic(body)) =>
       IF HasSpaceAndHandle(body)
       THEN /\ linear_velocity(body', space') = ZERO
            /\ angular_velocity(body', space') = ZERO
            /\ get_state(body', space', "BODY_STATE_LINEAR_VELOCITY")
                 = Variant("VECTOR3", ZERO)
            /\ get_state(body', space', "BODY_STATE_ANGULAR_VELOCITY")
                 = Variant("VECTOR3", ZERO)
       ELSE /\ body' = body
            /\ space' = space
            /\ linear_velocity(body', space') = body.linear_velocity
            /\ angular_velocity(body', space') = body.angular_velocity]_vars

\* pre_step has run on a KINEMATIC body with a space and a handle whose
\* velocities had been set to non-zero values
C11_Witness ==
  /\ ret.op = "pre_step"
  /\ ~panicked
  /\ is_kinematic(body)
  /\ HasSpaceAndHandle(body)
  /\ body.linear_velocity # ZERO
  /\ body.angular_velocity # ZERO
  /\ linear_velocity(body, space) = ZERO

HasEvent(events, e) == \E i \in 1..Len(events) : events[i] = e

CountEvents(events, e) == Cardinality({i \in 1..Len(events) : events[i] = e})

\* C12: pre_step on a KINEMATIC body with a space and a handle sends the
\* move-kinematic command iff the live pose differs from the target pose,
\* the target being the pose recorded by the last set_transform; it never
\* changes the body's fields, and a pre_step repeated once the live pose is
\* the target sends no move and changes nothing.
C12_MoveIffPoseDiffers ==
  [][(ret'.op = "pre_step" /\ ~panicked' /\ is_kinematic(body)
        /\ HasSpaceAndHandle(body)) =>
       LET moves == CountEvents(log', Cmd("move_kinematic"))
       IN  /\ moves = (IF isometry(body, space) # body.kinematic_isometry THEN 1 ELSE 0)
           /\ (moves = 1) => Space_get_body(space').position = body.kinematic_isometry
           /\ body' = body
           /\ (ret.op = "set_state" /\ ret.id = "BODY_STATE_TRANSFORM") =>
                body.kinematic_isometry = transform_to_isometry(ret.v.val)[1]
           /\ (ret.op = "pre_step") => (moves = 0 /\ space' = space)]_vars

\* pre_step has moved a KINEMATIC body to a target other than the default
C12_Witness ==
  /\ ret.op = "pre_step"
  /\ ~panicked
  /\ is_kinematic(body)
  /\ HasSpaceAndHandle(body)
  /\ HasEvent(log, Cmd("move_kinematic"))
  /\ body.kinematic_isometry # IsometryDefault
  /\ isometry(body, space) = body.kinematic_isometry
-----------------------------------------------------------------------------
(* Properties of pre_step on a RIGID body (SpecState) *)

IsEngineCmd(e) == e.kind = "engine"

\* the commands among the events, in order
EngineCmds(events) == SelectSeq(events, IsEngineCmd)

\* C13: pre_step(dt) on a RIGID or RIGID_LINEAR body with a space and a
\* handle sends, in this order, one set_linear_velocity of the engine's
\* velocity plus dt * total_gravity(), one apply_central_force of the
\* constant force and one apply_torque of the constant torque, and leaves
\* the stored constant force and torque as they are.
C13_IntegrateForcesOnce ==
  [][(ret'.op = "pre_step"
        /\ body.body_mode \in {BODY_MODE_RIGID, BODY_MODE_RIGID_LINEAR}
        /\ HasSpaceAndHandle(body)) =>
       /\ ~panicked'
       /\ EngineCmds(log') = <<Cmd("set_linear_velocity"), Cmd("apply_central_force"),
                               Cmd("apply_torque")>>
       /\ Space_get_body(space').linvel
            = VAdd(linear_velocity(body, space),
                   VScale(ret'.v, total_gravity(body, space)))
       /\ Space_get_body(space').force
            = VAdd(Space_get_body(space).force, body.constant_force)
       /\ Space_get_body(space').torque
            = VAdd(Space_get_body(space).torque, body.constant_torque)
       /\ body'.constant_force = body.constant_force
       /\ body'.constant_torque = body.constant_torque]_vars
-----------------------------------------------------------------------------
(* Properties of the mass property queries (SpecMass) *)

\* C14: inverse_mass() of a STATIC or KINEMATIC body is zero, with or
\* without a space and a handle, whatever mass is stored.
C14_InverseMassZero ==
  (ret.op = "inverse_mass" /\ (is_static(body) \/ is_kinematic(body))) =>
    ret.v = FloatZero

\* C15: inverse_inertia() of a STATIC or KINEMATIC body is the zero vector
\* and inverse_inertia_tensor() the zero tensor, with or without a space and
\* a handle, whatever inertia is stored.
C15_InverseInertiaZero ==
  (is_static(body) \/ is_kinematic(body)) =>
    /\ (ret.op = "inverse_inertia") => ret.v = <<FloatZero, FloatZero, FloatZero>>
    /\ (ret.op = "inverse_inertia_tensor") =>
         ret.v = Basis_from_diagonal(FloatZero, FloatZero, FloatZero)
-----------------------------------------------------------------------------
(* Properties of add_constant_force (SpecForce) *)

\* the world center of mass: the transform origin plus the rotated offset
\* of the center of mass (the engine's with an engine body, the stored
\* custom one without)
WorldCenterOfMass(b, sp) ==
  LET t == transform(b, sp)
      offset == IF HasEngineBody(b, sp)
                THEN local_center_of_mass(b, sp)
                ELSE IF b.has_custom_center_of_mass
                     THEN b.custom_center_of_mass
                     ELSE ZERO
  IN  VAdd(t.origin, Rotate(t.rotation, offset))

\* C16: add_constant_force(F, P) adds F to the constant force and
\* (P - center_of_mass) x F to the constant torque, center_of_mass being the
\* world center of mass; with P = center_of_mass the torque is unchanged,
\* for every transform origin.
C16_ForceAtPoint ==
  [][(ret'.op = "add_constant_force" /\ ~panicked') =>
       LET F == ret'.v.force
           P == ret'.v.position
           com == WorldCenterOfMass(body, space)
       IN  /\ body'.constant_force = VAdd(body.constant_force, F)
           /\ body'.constant_torque
                = VAdd(body.constant_torque, Cross(VSub(P, com), F))
           /\ (P = com) => body'.constant_torque = body.constant_torque]_vars
-----------------------------------------------------------------------------
(* Properties of the calls on a detached body (SpecDetached) *)

\* the field of the body that set_state(state, ..) stores
StoredState(b, state) ==
  CASE state = "BODY_STATE_TRANSFORM" -> b.transform
    [] state = "BODY_STATE_LINEAR_VELOCITY" -> b.linear_velocity
    [] state = "BODY_STATE_ANGULAR_VELOCITY" -> b.angular_velocity
    [] state = "BODY_STATE_SLEEPING" -> b.is_sleeping
    [] OTHER -> b.can_sleep

\* b with the field that set_state(state, value) stores, and with the
\* kinematic target that set_transform records on a KINEMATIC body
WithStoredState(b, state, value) ==
  CASE state = "BODY_STATE_TRANSFORM" ->
         [b EXCEPT !.transform = value,
                   !.kinematic_isometry =
                     IF is_kinematic(b) THEN transform_to_isometry(value)[1] ELSE @]
    [] state = "BODY_STATE_LINEAR_VELOCITY" -> [b EXCEPT !.linear_velocity = value]
    [] state = "BODY_STATE_ANGULAR_VELOCITY" -> [b EXCEPT !.angular_velocity = value]
    [] state = "BODY_STATE_SLEEPING" -> [b EXCEPT !.is_sleeping = value]
    [] OTHER -> [b EXCEPT !.can_sleep = value]

IsDiagnostic(e) == e.kind = "diagnostic"

\* C17: on a body with no space and no handle every accessor and mutator
\* completes without a panic and without an engine call; transform(),
\* linear_velocity(), angular_velocity() and is_sleeping() return the stored
\* value (the identity, zero, zero and false on a new body),
\* center_of_mass() and local_center_of_mass() return zero, and the setters
\* and apply_* calls change nothing but the body's stored fields.
C17_DetachedSafe ==
  [][(Detached(body) /\ ret'.op \notin {"set_space", "set_handle"}) =>
       /\ ~panicked'
       /\ space' = space
       /\ \A i \in 1..Len(log') : IsDiagnostic(log'[i])
       /\ (ret'.op = "get_state") =>
            /\ ret'.v = Variant(StateType(ret'.id), StoredState(body, ret'.id))
            /\ body = new =>
                 ret'.v.val = (CASE ret'.id = "BODY_STATE_TRANSFORM" -> IDENTITY
                                 [] ret'.id = "BODY_STATE_SLEEPING" -> FALSE
                                 [] OTHER -> ZERO)
       /\ (ret'.op \in {"center_of_mass", "local_center_of_mass"}) => ret'.v = ZERO
       /\ (ret'.op = "set_state") =>
            body' = WithStoredState(body, ret'.id, ret'.v.val)
       /\ (ret'.op = "set_body_mode") => body' = [body EXCEPT !.body_mode = ret'.v]
       /\ (ret'.op = "add_constant_force") =>
            body' = [body EXCEPT !.constant_force = body'.constant_force,
                                 !.constant_torque = body'.constant_torque]
       /\ (ret'.op \in {"get_state", "center_of_mass", "local_center_of_mass",
                        "total_gravity", "apply_central_force", "apply_torque",
                        "pre_step", "remove_space"}) => body' = body]_vars

\* get_state(TRANSFORM) on a detached body has returned the transform that
\* was stored, which is not the identity
C17_Witness ==
  /\ Detached(body)
  /\ ~panicked
  /\ ret.op = "get_state"
  /\ ret.id = "BODY_STATE_TRANSFORM"
  /\ ret.v.val = body.transform
  /\ ret.v.val # IDENTITY
  /\ log = <<Diag("ObjectSpaceNotSet")>>

\* the calls that reach for the space on the body b
NeedsEngineContext(b, call) ==
  \/ call.op \in {"center_of_mass", "local_center_of_mass", "total_gravity",
                  "add_constant_force", "apply_central_force", "apply_torque",
                  "get_state"}
  \/ call.op = "set_state" /\ ~(call.id = "BODY_STATE_TRANSFORM" /\ is_kinematic(b))
  \/ call.op = "pre_step" /\ ~is_static(b)

\* C18: every call of an operation that needs engine context, made on a
\* detached body, emits exactly one diagnostic, the operations that use
\* other accessors (total_gravity, add_constant_force, pre_step) included.
C18_OneDiagnostic ==
  [][(Detached(body) /\ NeedsEngineContext(body, ret')) =>
       Len(SelectSeq(log', IsDiagnostic)) = 1]_vars
-----------------------------------------------------------------------------
(* Properties of attachment (SpecAttach) *)

\* C19: after remove_space on a body, with either flag, and on an area, the
\* handle and the space are both absent; the engine object is removed once
\* iff the caller asked for it and the object had a space and a handle
\* when the call began, that is before the fields are cleared.
C19_RemoveSpaceClearsBoth ==
  [][/\ (ret'.op = "remove_space") =>
          LET removes == CountEvents(log', Cmd("remove_body"))
          IN  /\ body'.space = "None"
              /\ body'.handle = "None"
              /\ removes = (IF ret'.v /\ HasSpaceAndHandle(body) THEN 1 ELSE 0)
              /\ (removes = 1) => ~Space_get_body(space').present
              /\ (removes = 0) => space' = space
     /\ (ret'.op = "area_remove_from_space") =>
          LET removes == CountEvents(log', Cmd("remove_area"))
          IN  /\ rapier_area' = rapier_area
              /\ removes = (IF RapierArea_has_space_and_handle(rapier_area) THEN 1 ELSE 0)
              /\ (removes = 1) => ~space'.collider_present
              /\ (removes = 0) => space' = space
     /\ (ret'.op = "area_remove_space") =>
          /\ rapier_area'.space = "None"
          /\ rapier_area'.handle = "None"
          /\ space' = space
          /\ log' = <<>>]_vars

\* remove_space(true) has removed the engine object of a body that had a
\* space and a handle
C19_Witness ==
  /\ ret.op = "remove_space"
  /\ ret.v = TRUE
  /\ HasEvent(log, Cmd("remove_body"))
  /\ ~Space_get_body(space).present
  /\ Detached(body)
  /\ rapier_area = RapierArea_new
  /\ ~space.collider_present

\* C20: in every state reached through new, set_space, set_handle,
\* remove_space and the setters, the handle of the body, and of the area,
\* is present iff its space is present.
C20_HandleIffSpace ==
  /\ (body.handle # "None") <=> (body.space # "None")
  /\ (rapier_area.handle # "None") <=> (rapier_area.space # "None")

-----------------------------------------------------------------------------
(* Properties of the body as an object (SpecObject) *)

\* C21: call_queries on a body that has a live-state object and a valid
\* body-state callback invokes the callback exactly once, with the handle of
\* that live-state object; without a valid callback or without a live-state
\* object it invokes nothing.
C21_CallQueriesOnce ==
  [][(ret'.op = "call_queries") =>
       log' = (IF body.direct_state # <<>>
                  /\ Callable_is_valid(body.body_state_callback)
               THEN <<Callv(body.direct_state[1])>>
               ELSE <<>>)]_vars

\* C24: set_collision_layer(l) and set_collision_mask(m) always store the
\* value; on a body with a space and a handle the call sends exactly one
\* collision-group command and the engine's collision group is then the
\* stored (layer, mask) pair; otherwise it sends no engine command and the
\* engine is left as it was.
C24_CollisionGroupFollows ==
  [][(ret'.op \in {"set_collision_layer", "set_collision_mask"}) =>
       /\ body'.collision_layer =
            (IF ret'.op = "set_collision_layer" THEN ret'.v ELSE body.collision_layer)
       /\ body'.collision_mask =
            (IF ret'.op = "set_collision_mask" THEN ret'.v ELSE body.collision_mask)
       /\ IF HasSpaceAndHandle(body)
          THEN /\ EngineCmds(log') = <<Cmd("set_body_collision_group")>>
               /\ Space_get_body(space').collision_group =
                    [layer |-> body'.collision_layer, mask |-> body'.collision_mask]
          ELSE /\ EngineCmds(log') = <<>>
               /\ space' = space]_vars

\* a mask written after a layer on an attached body: the engine holds both
C24_Witness ==
  /\ ret.op = "set_collision_mask"
  /\ ret.v = 2147483647
  /\ HasSpaceAndHandle(body)
  /\ body.collision_layer = 4
  /\ EngineCmds(log) = <<Cmd("set_body_collision_group")>>
  /\ Space_get_body(space).collision_group = [layer |-> 4, mask |-> 2147483647]

\* C25: once the body is destroyed, every live-state object that
\* set_direct_state ever created for it has been freed.
C25_NoDirectStateOutlivesBody ==
  heap.body_dropped =>
    \A gd \in 1..Len(heap.direct_states) : heap.direct_states[gd] = "freed"

-----------------------------------------------------------------------------
(* Properties of the area's parameters (SpecAreaParam) *)

\* C22: set_param of an area with a wind parameter emits exactly one warning
\* and changes no field of the area, and get_param of a wind parameter
\* returns the fixed default (0.0 or the zero vector) whatever was set;
\* for every other parameter p and value v of the type of p, get_param(p)
\* after set_param(p, v) returns v and every other parameter reads as before.
C22_AreaParams ==
  [][/\ (ret'.op = "area_set_param" /\ ret'.id \in WindParameter) =>
          /\ ~panicked'
          /\ rapier_area' = rapier_area
          /\ Len(log') = 1
          /\ log'[1].kind = "warning"
          /\ RapierArea_get_param(rapier_area', ret'.id)
               = Variant(AreaParamType(ret'.id),
                         IF AreaParamType(ret'.id) = "FLOAT" THEN 0 ELSE ZERO)
     /\ (ret'.op = "area_set_param" /\ ret'.id \notin WindParameter) =>
          /\ ~panicked'
          /\ log' = <<>>
          /\ RapierArea_get_param(rapier_area', ret'.id) = ret'.v
          /\ \A other \in AreaParameter \ {ret'.id} :
               RapierArea_get_param(rapier_area', other)
                 = RapierArea_get_param(rapier_area, other)
     /\ (ret'.op = "area_get_param" /\ ret'.id \in WindParameter) =>
          ret'.v = Variant(AreaParamType(ret'.id),
                           IF AreaParamType(ret'.id) = "FLOAT" THEN 0 ELSE ZERO)]_vars

\* the wind direction has been set on an area whose linear damp was set
\* before: one warning, and the damp is still the one set
C22_Witness ==
  /\ ret.op = "area_set_param"
  /\ ret.id = "AREA_PARAM_WIND_DIRECTION"
  /\ ret.v = Variant("VECTOR3", Vector3(1, 0, 0))
  /\ log = <<Warn("AREA_PARAM_WIND_DIRECTION")>>
  /\ RapierArea_get_param(rapier_area, "AREA_PARAM_WIND_DIRECTION")
       = Variant("VECTOR3", ZERO)
  /\ RapierArea_get_param(rapier_area, "AREA_PARAM_LINEAR_DAMP") = Variant("FLOAT", 2)
  /\ RapierArea_get_param(rapier_area, "AREA_PARAM_GRAVITY_OVERRIDE_MODE")
       = Variant("INT", 3)

-----------------------------------------------------------------------------
(* Properties of setters given malformed data (SpecMalformed) *)

\* the data set_data of the kind takes: a float for a sphere, a vector for
\* a box, a Dictionary with a float "radius" and a float "height" for a
\* capsule and a cylinder
WellFormed(kind, data) ==
  CASE kind = "sphere" -> data.type = "FLOAT"
    [] kind = "box" -> data.type = "VECTOR3"
    [] OTHER -> /\ data.type = "DICTIONARY"
                /\ data.val.radius.type = "FLOAT"
                /\ data.val.height.type = "FLOAT"

\* C23: a setter given malformed data reports a diagnostic and leaves the
\* whole prior state unchanged: set_data of any shape kind with a value of
\* the wrong type, or with a Dictionary whose "radius" or "height" is missing
\* or of the wrong type, changes no field of the shape, and set_param of a
\* body with a value of the wrong type changes no field of the body and
\* does not panic.
C23_MalformedLeavesState ==
  [][/\ (ret'.op = "shape_set_data" /\ ~WellFormed(rapier_shape.kind, ret'.v)) =>
          /\ rapier_shape' = rapier_shape
          /\ \E i \in 1..Len(log') : IsDiagnostic(log'[i])
     /\ (ret'.op = "set_param" /\ ret'.v.type # ParamType(ret'.id)) =>
          /\ body' = body
          /\ ~panicked']_vars

-----------------------------------------------------------------------------
(* Properties of the switch to KINEMATIC (SpecState) *)

\* C26: when set_body_mode puts a body in KINEMATIC mode its target pose
\* (kinematic_isometry) is its current pose, the one transform() reports,
\* with or without a space and a handle; set_handle on a body that had no
\* handle, which brings the engine object, keeps the two equal, and
\* pre_step on a KINEMATIC body whose target is its pose sends no move and
\* leaves the engine's pose alone, so the first pre_step after the switch
\* does not move the body.
C26_KinematicTargetIsPose ==
  [][/\ (ret'.op = "set_body_mode" /\ ret'.v = BODY_MODE_KINEMATIC) =>
          body'.kinematic_isometry = isometry(body', space')
     /\ (ret'.op = "set_handle" /\ body.handle = "None" /\ is_kinematic(body)
           /\ body.kinematic_isometry = isometry(body, space)) =>
          body'.kinematic_isometry = isometry(body', space')
     /\ (ret'.op = "pre_step" /\ ~panicked' /\ is_kinematic(body)
           /\ HasSpaceAndHandle(body)
           /\ body.kinematic_isometry = isometry(body, space)) =>
          /\ ~HasEvent(log', Cmd("move_kinematic"))
          /\ Space_get_body(space').position = Space_get_body(space).position]_vars

-----------------------------------------------------------------------------
(* Properties of the mass-property setters (SpecMassProps) *)

\* C27: on a body with a space and a handle set_inertia(zero) sends one
\* set_mass of the stored mass with the custom-center-of-mass flag and no
\* set_inertia, and set_inertia of a non-zero vector sends that vector;
\* set_center_of_mass stores the center and sets the flag; set_mass sends
\* the mass with the flag; reset_mass_properties clears the flag, the custom
\* center of mass and the inertia, keeps the stored mass and sends set_mass
\* of it without the flag; no other call changes the flag.
C27_MassPropertySetters ==
  [][/\ (ret'.op = "set_param" /\ ret'.id = "BODY_PARAM_INERTIA") =>
          /\ body' = [body EXCEPT !.inertia = ret'.v.val]
          /\ HasSpaceAndHandle(body) =>
               IF ret'.v.val = ZERO
               THEN /\ EngineCmds(log') = <<Cmd("set_mass")>>
                    /\ space' = Space_set_mass(space, body.mass,
                                               body.has_custom_center_of_mass)
               ELSE /\ EngineCmds(log') = <<Cmd("set_inertia")>>
                    /\ space' = Space_set_inertia(space, ret'.v.val)
     /\ (ret'.op = "set_param" /\ ret'.id = "BODY_PARAM_CENTER_OF_MASS") =>
          body' = [body EXCEPT !.custom_center_of_mass = ret'.v.val,
                               !.has_custom_center_of_mass = TRUE]
     /\ (ret'.op = "set_param" /\ ret'.id = "BODY_PARAM_MASS") =>
          /\ body' = [body EXCEPT !.mass = ret'.v.val]
          /\ HasSpaceAndHandle(body) =>
               /\ EngineCmds(log') = <<Cmd("set_mass")>>
               /\ space' = Space_set_mass(space, ret'.v.val,
                                          body.has_custom_center_of_mass)
     /\ (ret'.op = "reset_mass_properties") =>
          /\ body' = [body EXCEPT !.inertia = ZERO,
                                  !.custom_center_of_mass = ZERO,
                                  !.has_custom_center_of_mass = FALSE]
          /\ HasSpaceAndHandle(body) =>
               /\ EngineCmds(log') = <<Cmd("set_mass")>>
               /\ space' = Space_set_mass(space, body.mass, FALSE)
     /\ (~(ret'.op = "set_param" /\ ret'.id = "BODY_PARAM_CENTER_OF_MASS")
           /\ ret'.op # "reset_mass_properties") =>
          body'.has_custom_center_of_mass = body.has_custom_center_of_mass
     /\ ~HasSpaceAndHandle(body) => EngineCmds(log') = <<>>]_vars

\* set_inertia(zero) on an attached body whose center of mass was set: the
\* engine was sent the stored mass and kept the custom center of mass
C27_Witness ==
  /\ ret.op = "set_param"
  /\ ret.id = "BODY_PARAM_INERTIA"
  /\ ret.v.val = ZERO
  /\ HasSpaceAndHandle(body)
  /\ body.has_custom_center_of_mass
  /\ body.mass = 2
  /\ EngineCmds(log) = <<Cmd("set_mass")>>
  /\ Space_get_body(space).mass = 2
  /\ Space_get_body(space).local_com = Vector3(0, 0, 1)
  /\ Space_get_body(space).inertia = Vector3(1, 2, 4)
====
